---- MODULE Spec2Model ----
(***************************************************************************)
(* Model of the Cardsphere package tracker content script.                 *)
(*                                                                         *)
(* Texts are sequences of one-character strings, so that template strings, *)
(* join() and the regular expressions of parsePackage are computed rather  *)
(* than assumed.  A DOM element is a record of its child nodes; a child    *)
(* node is [tag, text].                                                    *)
(***************************************************************************)
EXTENDS Integers, Sequences, FiniteSets, TLC

(***************************************************************************)
(* Bounds of the model.                                                    *)
(***************************************************************************)
MaxElems == 2       \* listing elements created during one page view
MaxOrphans == 1     \* unanswered writes a page may leave behind when unloaded
MaxCycles == 2      \* initializeState activations recorded per page view
MaxPrev == 2        \* packages of a previous set compared with one listing
MaxClears == 2      \* storage.clear calls of one page view awaiting their answers

(***************************************************************************)
(* Texts.                                                                  *)
(***************************************************************************)
None == <<"<none>">>            \* null / undefined, where a text is expected
Empty == << >>                  \* the empty string ''

Digits == {"0", "1", "2", "3", "4", "5", "6", "7", "8", "9"}

\* Array.prototype.join(sep) on an array of texts
RECURSIVE Join(_, _)
Join(texts, sep) ==
  IF Len(texts) = 0 THEN Empty
  ELSE IF Len(texts) = 1 THEN texts[1]
  ELSE texts[1] \o sep \o Join(Tail(texts), sep)

\* Array.prototype.map
MapSeq(Op(_), s) == [i \in 1..Len(s) |-> Op(s[i])]

\* text.match(/(\d+)<ch>/)?.[1]: the first maximal run of digits that is
\* immediately followed by ch; None when there is no match.
DigitRunStarts(text, ch) ==
  {i \in 1..Len(text) :
     \E j \in i..(Len(text) - 1) :
        /\ \A k \in i..j : text[k] \in Digits
        /\ text[j + 1] = ch}

MatchDigitsThen(text, ch) ==
  LET starts == DigitRunStarts(text, ch) IN
  IF starts = {} THEN None
  ELSE LET i == CHOOSE s \in starts : \A t \in starts : s <= t
           j == CHOOSE e \in i..(Len(text) - 1) :
                   /\ \A k \in i..e : text[k] \in Digits
                   /\ text[e + 1] = ch
       IN SubSeq(text, i, j)

\* Collation rank of the characters used in card names (root collation:
\* whitespace, punctuation, symbols, currency, digits, letters).
CharRank(c) ==
  CASE c = " " -> 1
    [] c = "-" -> 2
    [] c = "%" -> 3
    [] c = "|" -> 4
    [] c = "$" -> 5
    [] c \in Digits -> 6 + (CHOOSE n \in 0..9 : ToString(n) = c)
    [] c = "a" -> 20
    [] c = "b" -> 21
    [] c = "f" -> 22
    [] c = "g" -> 23
    [] c = "m" -> 24
    [] c = "n" -> 25
    [] c = "p" -> 26
    [] c = "x" -> 27
    [] OTHER -> 40

\* a.localeCompare(b): -1, 0 or 1
RECURSIVE localeCompare(_, _)
localeCompare(a, b) ==
  IF Len(a) = 0 /\ Len(b) = 0 THEN 0
  ELSE IF Len(a) = 0 THEN -1
  ELSE IF Len(b) = 0 THEN 1
  ELSE IF CharRank(a[1]) < CharRank(b[1]) THEN -1
  ELSE IF CharRank(a[1]) > CharRank(b[1]) THEN 1
  ELSE localeCompare(Tail(a), Tail(b))

(***************************************************************************)
(* DOM.                                                                    *)
(*   node     [tag, text]                                                  *)
(*   li       [more: BOOLEAN, nodes: Seq(node)]                            *)
(*   package  [hasHeading, heading: Seq(node), body: Seq(li), classes]      *)
(***************************************************************************)
Node(tag, text) == [tag |-> tag, text |-> text]

\* element.querySelector(sel)?.textContent || ''  over the element's children
QueryText(nodes, tag) ==
  LET hits == {i \in 1..Len(nodes) : nodes[i].tag = tag} IN
  IF hits = {} THEN Empty
  ELSE nodes[CHOOSE i \in hits : \A j \in hits : i <= j].text

\* element.textContent: the texts of all descendants, in document order
RECURSIVE TextContent(_)
TextContent(nodes) ==
  IF Len(nodes) = 0 THEN Empty
  ELSE nodes[1].text \o TextContent(Tail(nodes))

(***************************************************************************)
(* Record extractor (latest revision).                                     *)
(***************************************************************************)
\* heading is null when the listing has no .package-heading: the call
\* heading.querySelector(...) then throws a TypeError.
parsePackageThrows(el) == ~el.hasHeading

\* One <li> of the package body as a card record; element is the index of
\* the <li> in the body.
parseCard(li, idx) ==
  LET q == MatchDigitsThen(TextContent(li.nodes), "x") IN
  [name      |-> QueryText(li.nodes, "a"),
   condition |-> QueryText(li.nodes, "condition"),
   price     |-> QueryText(li.nodes, "strong"),
   quantity  |-> IF q = None \/ q = Empty THEN <<"1">> ELSE q,
   element   |-> idx]

\* Position at which a stable sort by name places card c in a sorted prefix:
\* after every card whose name does not compare greater.
InsertPos(sorted, c) ==
  LET later == {i \in 1..Len(sorted) : localeCompare(sorted[i].name, c.name) > 0} IN
  IF later = {} THEN Len(sorted) + 1
  ELSE CHOOSE i \in later : \A j \in later : i <= j

RECURSIVE SortFrom(_, _)
SortFrom(sorted, rest) ==
  IF Len(rest) = 0 THEN sorted
  ELSE LET c == rest[1]
           p == InsertPos(sorted, c)
       IN SortFrom(SubSeq(sorted, 1, p - 1) \o <<c>> \o SubSeq(sorted, p, Len(sorted)),
                   Tail(rest))

\* cards.sort((a, b) => a.name.localeCompare(b.name)): stable
SortByName(cards) == SortFrom(<< >>, cards)

\* [...querySelectorAll('.package-body li')].filter(not 'more').map(card)
RECURSIVE CardsFrom(_, _)
CardsFrom(body, idx) ==
  IF idx > Len(body) THEN << >>
  ELSE IF body[idx].more THEN CardsFrom(body, idx + 1)
  ELSE <<parseCard(body[idx], idx)>> \o CardsFrom(body, idx + 1)

\* parsePackage(pkg) for an element with a heading; id is the reference to
\* the element.
parsePackage(el, id) ==
  LET efficiencyText == QueryText(el.heading, "efficiency-index")
      percentageMatch == MatchDigitsThen(efficiencyText, "%")
  IN [username             |-> QueryText(el.heading, "a"),
      total                |-> QueryText(el.heading, "strong"),
      efficiencyText       |-> efficiencyText,
      efficiencyPercentage |-> IF percentageMatch = None THEN Empty ELSE percentageMatch,
      cards                |-> SortByName(CardsFrom(el.body, 1)),
      element              |-> id]

(***************************************************************************)
(* Key derivation (latest revision).                                       *)
(***************************************************************************)
\* `${card.quantity}x ${card.name} ${card.condition}`
cardKey(card) ==
  card.quantity \o <<"x", " ">> \o card.name \o <<" ">> \o card.condition

\* `${card.quantity}x ${card.name} ${card.condition} ${card.price}`
cardKeyWithPrice(card) == cardKey(card) \o <<" ">> \o card.price

getBasePackageKey(pkgObj) ==
  pkgObj.username \o <<"-">> \o Join(MapSeq(cardKey, pkgObj.cards), <<"|">>)

getPackageKeyWithPercentage(pkgObj) ==
  getBasePackageKey(pkgObj) \o <<"-">> \o pkgObj.efficiencyPercentage

\* A full key without the total and the prices.
getFullPackageKeyWithoutPrices(pkgObj) ==
  pkgObj.username \o <<"-">> \o pkgObj.efficiencyPercentage
    \o <<"-">> \o Join(MapSeq(cardKey, pkgObj.cards), <<"|">>)

getFullPackageKey(pkgObj) ==
  pkgObj.username \o <<"-">> \o pkgObj.total \o <<"-">> \o pkgObj.efficiencyPercentage
    \o <<"-">> \o Join(MapSeq(cardKeyWithPrice, pkgObj.cards), <<"|">>)

(***************************************************************************)
(* Diff engine (latest revision).                                          *)
(***************************************************************************)
\* Map.prototype.set
MapSet(m, k, v) == [x \in (DOMAIN m) \cup {k} |-> IF x = k THEN v ELSE m[x]]

EmptyMap == [x \in {} |-> None]

\* A lookup map that keeps the first package of each base key.
RECURSIVE BuildBaseMapKeepingFirst(_, _)
BuildBaseMapKeepingFirst(m, prevPackages) ==
  IF Len(prevPackages) = 0 THEN m
  ELSE LET pkg == prevPackages[1] IN
       BuildBaseMapKeepingFirst(
         IF getBasePackageKey(pkg) \in DOMAIN m THEN m
         ELSE MapSet(m, getBasePackageKey(pkg),
                     [percentageKey |-> getPackageKeyWithPercentage(pkg),
                      fullKey       |-> getFullPackageKey(pkg),
                      pkg           |-> pkg]),
         Tail(prevPackages))

\* prevPackages.forEach(pkg => prevBasePackageMap.set(baseKey, {...}))
RECURSIVE BuildBaseMap(_, _)
BuildBaseMap(m, prevPackages) ==
  IF Len(prevPackages) = 0 THEN m
  ELSE LET pkg == prevPackages[1] IN
       BuildBaseMap(MapSet(m, getBasePackageKey(pkg),
                           [percentageKey |-> getPackageKeyWithPercentage(pkg),
                            fullKey       |-> getFullPackageKey(pkg),
                            pkg           |-> pkg]),
                    Tail(prevPackages))

\* A lookup map keyed by the key with percentage.
RECURSIVE BuildPercentageMap(_, _)
BuildPercentageMap(m, prevPackages) ==
  IF Len(prevPackages) = 0 THEN m
  ELSE LET pkg == prevPackages[1] IN
       BuildPercentageMap(MapSet(m, getPackageKeyWithPercentage(pkg),
                                 [percentageKey |-> getPackageKeyWithPercentage(pkg),
                                  fullKey       |-> getFullPackageKey(pkg),
                                  pkg           |-> pkg]),
                          Tail(prevPackages))

prevPercentageMap(prevPackages) == BuildPercentageMap(EmptyMap, prevPackages)

prevBasePackageMap(prevPackages) == BuildBaseMap(EmptyMap, prevPackages)

\* prevData.pkg.cards.forEach(card => prevCardMap.set(cardKey, card))
RECURSIVE BuildCardMap(_, _)
BuildCardMap(m, cards) ==
  IF Len(cards) = 0 THEN m
  ELSE BuildCardMap(MapSet(m, cardKey(cards[1]), cards[1]), Tail(cards))

\* The previous price shown on one current card of a price-changed package,
\* None when none is shown.
oldPriceFor(prevCardMap, card) ==
  IF cardKey(card) \in DOMAIN prevCardMap
     /\ prevCardMap[cardKey(card)].price # card.price
  THEN prevCardMap[cardKey(card)].price
  ELSE None

\* Nothing displayed: no previous total, no previous card price.
NoOld == [shown |-> FALSE, total |-> Empty, efficiencyText |-> Empty]

NoPayload(currPkg) ==
  [oldTotal |-> NoOld, oldCards |-> [i \in 1..Len(currPkg.cards) |-> None]]

\* A classification that looks at the full key before the percentage.
classifyPackagePriceFirst(baseMap, currPkg) ==
  LET baseKey == getBasePackageKey(currPkg)
      percentageKey == getPackageKeyWithPercentage(currPkg)
      fullKey == getFullPackageKey(currPkg)
  IN IF baseKey \notin DOMAIN baseMap
     THEN [class |-> "package-new"] @@ NoPayload(currPkg)
     ELSE LET prevData == baseMap[baseKey]
              old == [shown |-> TRUE, total |-> prevData.pkg.total,
                      efficiencyText |-> prevData.pkg.efficiencyText]
          IN IF prevData.fullKey # fullKey
             THEN LET prevCardMap == BuildCardMap(EmptyMap, prevData.pkg.cards) IN
                  [class |-> "package-price-changed", oldTotal |-> old,
                   oldCards |-> [i \in 1..Len(currPkg.cards) |->
                                    oldPriceFor(prevCardMap, currPkg.cards[i])]]
             ELSE IF prevData.percentageKey # percentageKey
             THEN [class |-> "package-offer-changed", oldTotal |-> old,
                   oldCards |-> [i \in 1..Len(currPkg.cards) |-> None]]
             ELSE [class |-> "unchanged"] @@ NoPayload(currPkg)

\* The body of currentPackages.forEach for one package: its classification
\* and what is displayed with it.
classifyPackage(baseMap, currPkg) ==
  LET baseKey == getBasePackageKey(currPkg)
      percentageKey == getPackageKeyWithPercentage(currPkg)
      fullKey == getFullPackageKey(currPkg)
  IN IF baseKey \notin DOMAIN baseMap
     THEN [class |-> "package-new"] @@ NoPayload(currPkg)
     ELSE LET prevData == baseMap[baseKey]
              old == [shown |-> TRUE, total |-> prevData.pkg.total,
                      efficiencyText |-> prevData.pkg.efficiencyText]
          IN IF prevData.percentageKey # percentageKey
             THEN [class |-> "package-offer-changed", oldTotal |-> old,
                   oldCards |-> [i \in 1..Len(currPkg.cards) |-> None]]
             ELSE IF prevData.fullKey # fullKey
             THEN LET prevCardMap == BuildCardMap(EmptyMap, prevData.pkg.cards) IN
                  [class |-> "package-price-changed", oldTotal |-> old,
                   oldCards |-> [i \in 1..Len(currPkg.cards) |->
                                    oldPriceFor(prevCardMap, currPkg.cards[i])]]
             ELSE [class |-> "unchanged"] @@ NoPayload(currPkg)

\* The stored value: packageData is absent, or a sequence of packages.
Absent == [absent |-> TRUE, packageData |-> << >>]
Stored(pkgs) == [absent |-> FALSE, packageData |-> pkgs]

\* result.packageData || []
loadedPackages(stored) == IF stored.absent THEN << >> ELSE stored.packageData

\* One classification per current package, in order.
classifyAll(currentPackages, stored) ==
  LET baseMap == prevBasePackageMap(loadedPackages(stored)) IN
  [i \in 1..Len(currentPackages) |-> classifyPackage(baseMap, currentPackages[i])]

\* const cardCopy = { ...card }; delete cardCopy.element
stripCard(card) ==
  [name |-> card.name, condition |-> card.condition,
   price |-> card.price, quantity |-> card.quantity]

\* A stored package without the offer percentage.
stripPackageOmittingPercentage(pkg) ==
  [username |-> pkg.username, total |-> pkg.total,
   efficiencyText |-> pkg.efficiencyText,
   efficiencyPercentage |-> Empty,
   cards |-> MapSeq(stripCard, pkg.cards)]

\* A copy that keeps the package's element reference.
stripPackageKeepingElement(pkg) ==
  [username |-> pkg.username, total |-> pkg.total,
   efficiencyText |-> pkg.efficiencyText,
   efficiencyPercentage |-> pkg.efficiencyPercentage,
   cards |-> MapSeq(stripCard, pkg.cards),
   element |-> pkg.element]

\* const pkgCopy = { ...pkg }; delete pkgCopy.element; pkgCopy.cards = ...
stripPackage(pkg) ==
  [username |-> pkg.username, total |-> pkg.total,
   efficiencyText |-> pkg.efficiencyText,
   efficiencyPercentage |-> pkg.efficiencyPercentage,
   cards |-> MapSeq(stripCard, pkg.cards)]

packagesToStore(currentPackages) == MapSeq(stripPackage, currentPackages)

(***************************************************************************)
(* Annotation: what the classification loop does to the elements.          *)
(***************************************************************************)
PreviousLabel == <<"P", "r", "e", "v", "i", "o", "u", "s", ":", " ">>

\* displayOldPackageTotal(packageElement, oldTotal, oldEfficiencyText)
displayOldPackageTotal(el, oldTotal, oldEfficiencyText) ==
  IF ~el.hasHeading THEN el
  ELSE [el EXCEPT !.heading =
          Append(@, Node("old-package-total",
                         PreviousLabel \o oldTotal \o <<" ">> \o oldEfficiencyText))]

\* displayOldPriceInfo(cardElement, oldPrice, oldEfficiencyText) on <li> idx
displayOldPriceInfo(el, idx, oldPrice, oldEfficiencyText) ==
  [el EXCEPT !.body[idx].nodes =
     Append(@, Node("old-price-info", oldPrice \o <<" ">> \o oldEfficiencyText))]

\* currPkg.cards.forEach(card => ... displayOldPriceInfo(card.element, ...))
RECURSIVE annotateCards(_, _, _, _)
annotateCards(el, cards, oldCards, k) ==
  IF k > Len(cards) THEN el
  ELSE annotateCards(IF oldCards[k] = None THEN el
                     ELSE displayOldPriceInfo(el, cards[k].element, oldCards[k], Empty),
                     cards, oldCards, k + 1)

\* The marks and markers one classification puts on its element.
annotateElement(el, currPkg, result) ==
  IF result.class = "unchanged" THEN el
  ELSE LET marked == [el EXCEPT !.classes = @ \cup {result.class}]
           totalled == IF result.oldTotal.shown
                       THEN displayOldPackageTotal(marked, result.oldTotal.total,
                                                   result.oldTotal.efficiencyText)
                       ELSE marked
       IN annotateCards(totalled, currPkg.cards, result.oldCards, 1)

\* A loop that marks the elements counted from the end of the list.
RECURSIVE annotateAllFromEnd(_, _, _, _, _)
annotateAllFromEnd(es, packages, currentPackages, results, i) ==
  IF i > Len(currentPackages) THEN es
  ELSE annotateAllFromEnd([es EXCEPT ![packages[Len(packages) + 1 - i]] =
                             annotateElement(@, currentPackages[i], results[i])],
                          packages, currentPackages, results, i + 1)

\* currentPackages.forEach((currPkg, index) => { pkgElement = packages[index]; ... })
RECURSIVE annotateAll(_, _, _, _, _)
annotateAll(es, packages, currentPackages, results, i) ==
  IF i > Len(currentPackages) THEN es
  ELSE annotateAll([es EXCEPT ![packages[i]] =
                       annotateElement(@, currentPackages[i], results[i])],
                   packages, currentPackages, results, i + 1)

CountOf(results, class) == Cardinality({i \in 1..Len(results) : results[i].class = class})

(***************************************************************************)
(* The listings the page can show.                                         *)
(***************************************************************************)
Li(lead, name, condition, price) ==
  [more |-> FALSE,
   nodes |-> (IF lead = Empty THEN << >> ELSE <<Node("text", lead)>>)
             \o <<Node("a", name), Node("text", <<" ">>),
                  Node("condition", condition), Node("text", <<" ">>),
                  Node("strong", price)>>]

Pkg(seller, total, efficiency, body) ==
  [hasHeading |-> TRUE,
   heading |-> <<Node("a", seller), Node("strong", total),
                 Node("efficiency-index", efficiency)>>,
   body |-> body,
   classes |-> {}]

\* seller a, one card
ListingA == Pkg(<<"a">>, <<"$", "3">>, <<"7", "%">>,
                <<Li(Empty, <<"f">>, <<"n">>, <<"$", "1">>)>>)
\* ListingA with another offer percentage
ListingB == Pkg(<<"a">>, <<"$", "3">>, <<"8", "%">>,
                <<Li(Empty, <<"f">>, <<"n">>, <<"$", "1">>)>>)
\* ListingA with another card price and total
ListingC == Pkg(<<"a">>, <<"$", "4">>, <<"7", "%">>,
                <<Li(Empty, <<"f">>, <<"n">>, <<"$", "2">>)>>)
\* seller b, two cards, in the markup out of name order
ListingE == Pkg(<<"b">>, <<"$", "3">>, <<"7", "%">>,
                <<Li(<<"2", "x", " ">>, <<"g">>, <<"p">>, <<"$", "1">>),
                  Li(Empty, <<"f">>, <<"n">>, <<"$", "1">>)>>)
\* ListingE with another price of one card and another total
ListingF == Pkg(<<"b">>, <<"$", "4">>, <<"7", "%">>,
                <<Li(<<"2", "x", " ">>, <<"g">>, <<"p">>, <<"$", "2">>),
                  Li(Empty, <<"f">>, <<"n">>, <<"$", "1">>)>>)
\* a listing without a heading region
ListingH == [hasHeading |-> FALSE, heading |-> << >>,
             body |-> <<Li(Empty, <<"f">>, <<"n">>, <<"$", "1">>)>>,
             classes |-> {}]

Listings == {ListingA, ListingB, ListingC, ListingE, ListingF}
PageListings == {ListingA, ListingC, ListingH}

SeqsUpTo(S, n) == UNION {[1..k -> S] : k \in 0..n}

\* packages.map(pkg => parsePackage(pkg))
RECURSIVE parseAll(_, _, _)
parseAll(es, packages, i) ==
  IF i > Len(packages) THEN << >>
  ELSE <<parsePackage(es[packages[i]], packages[i])>> \o parseAll(es, packages, i + 1)

Ids(n) == [i \in 1..n |-> i]

(***************************************************************************)
(* State.                                                                  *)
(***************************************************************************)
VARIABLES
  origin,             \* how the page view was opened: "user", "reset", or
                      \* "same" (revisited with the markup unchanged)
  loaded,             \* the page is loaded and shows its listings
  booted,             \* the content script's top level has run
  elems,              \* the listing elements created in this page view
  page,               \* getElementsByClassName('cs-package'): element ids
  mutations,          \* a mutation record is queued for the observer
  isInitialized,
  isInitializing,
  newCount,
  offerChangedCount,
  priceChangedCount,
  cycles,             \* the activations of initializeState in this page view
  store,              \* browser.storage.local: the value of packageData
  queue,              \* store requests not yet answered, oldest first
  resetPc,            \* the reset handler: "idle", "clearing", "reloading"
  timerOn             \* the polling interval of the timer-driven revision runs

vars == <<origin, loaded, booted, elems, page, mutations, isInitialized,
          isInitializing, newCount, offerChangedCount, priceChangedCount,
          cycles, store, queue, resetPc, timerOn>>

counters == <<newCount, offerChangedCount, priceChangedCount>>

\* An activation of initializeState: its locals and where it is suspended.
\*   pc: "load" (awaiting storage.get), "save" (awaiting storage.set),
\*       "returned" (promise fulfilled, the caller not yet resumed),
\*       "done", "threw" (promise rejected)
Activation(pc, packages, currentPackages) ==
  [pc |-> pc, packages |-> packages, currentPackages |-> currentPackages,
   prevPackages |-> << >>, results |-> << >>]

\* An activation that has ended: its locals are gone.
Ended(pc) == Activation(pc, << >>, << >>)

\* An element no longer on the page and referenced by no activation is
\* garbage; its slot keeps the ids of the others stable.
Garbage == [hasHeading |-> FALSE, heading |-> << >>, body |-> << >>, classes |-> {}]

Referenced(id, pg, cs) ==
  \/ \E i \in 1..Len(pg) : pg[i] = id
  \/ \E c \in 1..Len(cs) : \E i \in 1..Len(cs[c].packages) : cs[c].packages[i] = id

Collect(es, pg, cs) ==
  [id \in 1..Len(es) |-> IF Referenced(id, pg, cs) THEN es[id] ELSE Garbage]

Request(op, by, value) == [op |-> op, by |-> by, value |-> value]

\* The state of a freshly loaded page showing markup, before the content
\* script runs.
FreshPage(markup) ==
  /\ loaded = TRUE
  /\ booted = FALSE
  /\ elems = markup
  /\ page = Ids(Len(markup))
  /\ mutations = FALSE
  /\ isInitialized = FALSE
  /\ isInitializing = FALSE
  /\ newCount = 0
  /\ offerChangedCount = 0
  /\ priceChangedCount = 0
  /\ cycles = << >>
  /\ resetPc = "idle"
  /\ timerOn = FALSE

Init ==
  /\ origin = "user"
  /\ \E markup \in SeqsUpTo(PageListings, MaxElems) : FreshPage(markup)
  /\ store = Absent
  /\ queue = << >>

(***************************************************************************)
(* Run controller and cycle (latest revision).                             *)
(***************************************************************************)
\* initializeState() up to its first await or its return.  The activation
\* gets index Len(cycles) + 1.
InitializeState ==
  IF isInitialized \/ Len(page) = 0
  THEN /\ cycles' = Append(cycles, Activation("returned", << >>, << >>))
       /\ UNCHANGED <<counters, queue>>
  ELSE /\ newCount' = 0
       /\ offerChangedCount' = 0
       /\ priceChangedCount' = 0
       /\ IF \E i \in 1..Len(page) : parsePackageThrows(elems[page[i]])
          THEN /\ cycles' = Append(cycles, Ended("threw"))
               /\ UNCHANGED queue
          ELSE /\ cycles' = Append(cycles,
                                   Activation("load", page, parseAll(elems, page, 1)))
               /\ queue' = Append(queue, Request("get", Len(cycles) + 1, << >>))

\* beginInitialization() up to its await.
BeginInitialization ==
  IF isInitialized \/ isInitializing
  THEN UNCHANGED <<isInitializing, counters, cycles, queue>>
  ELSE /\ Len(cycles) < MaxCycles
       /\ isInitializing' = TRUE
       /\ InitializeState

\* The content script's top level: beginInitialization(), then the observer
\* is registered.
Start ==
  /\ loaded
  /\ ~booted
  /\ booted' = TRUE
  /\ BeginInitialization
  /\ UNCHANGED <<timerOn, origin, loaded, elems, page, mutations, isInitialized,
                 store, resetPc>>

\* The observer of the earlier revisions, which calls initializeState()
\* itself and looks at isInitialized only.
ObserverCallbackUnguarded ==
  /\ booted
  /\ mutations
  /\ mutations' = FALSE
  /\ IF ~isInitialized
     THEN Len(cycles) < MaxCycles /\ InitializeState
     ELSE UNCHANGED <<counters, cycles, queue>>
  /\ UNCHANGED <<timerOn, origin, loaded, booted, elems, page, isInitialized,
                 isInitializing, store, resetPc>>

\* The MutationObserver callback.
ObserverCallback ==
  /\ booted
  /\ mutations
  /\ mutations' = FALSE
  /\ IF ~isInitialized /\ ~isInitializing
     THEN BeginInitialization
     ELSE UNCHANGED <<isInitializing, counters, cycles, queue>>
  /\ UNCHANGED <<timerOn, origin, loaded, booted, elems, page, isInitialized,
                 store, resetPc>>

\* The request at the head of the queue is the one activation c awaits.
Answers(op, c) ==
  /\ c \in 1..Len(cycles)
  /\ queue # << >>
  /\ Head(queue).op = op
  /\ Head(queue).by = c

\* A cycle that stores a fresh extraction of the page instead of the
\* packages it extracted before the load.
LoadOkSavingPage(c) ==
  /\ Answers("get", c)
  /\ LET cur == cycles[c].currentPackages
         results == classifyAll(cur, store)
     IN /\ elems' = annotateAll(elems, cycles[c].packages, cur, results, 1)
        /\ newCount' = newCount + CountOf(results, "package-new")
        /\ offerChangedCount' = offerChangedCount + CountOf(results, "package-offer-changed")
        /\ priceChangedCount' = priceChangedCount + CountOf(results, "package-price-changed")
        /\ cycles' = [cycles EXCEPT ![c] = [@ EXCEPT !.pc = "save",
                                                     !.prevPackages = loadedPackages(store),
                                                     !.results = results]]
        /\ queue' = Append(Tail(queue), Request("set", c,
                                   packagesToStore(parseAll(elems, SelectSeq(page, LAMBDA id : elems[id].hasHeading), 1))))
  /\ mutations' = TRUE      \* updateLegendCounts replaces the legend's text nodes
  /\ UNCHANGED <<timerOn, origin, loaded, booted, page, isInitialized, isInitializing,
                 store, resetPc>>

\* storage.get resolves: lines 542-645, up to the await of storage.set.
LoadOk(c) ==
  /\ Answers("get", c)
  /\ LET cur == cycles[c].currentPackages
         results == classifyAll(cur, store)
     IN /\ elems' = annotateAll(elems, cycles[c].packages, cur, results, 1)
        /\ newCount' = newCount + CountOf(results, "package-new")
        /\ offerChangedCount' = offerChangedCount + CountOf(results, "package-offer-changed")
        /\ priceChangedCount' = priceChangedCount + CountOf(results, "package-price-changed")
        /\ cycles' = [cycles EXCEPT ![c] = [@ EXCEPT !.pc = "save",
                                                     !.prevPackages = loadedPackages(store),
                                                     !.results = results]]
        /\ queue' = Append(Tail(queue), Request("set", c, packagesToStore(cur)))
  /\ mutations' = TRUE      \* updateLegendCounts replaces the legend's text nodes
  /\ UNCHANGED <<timerOn, origin, loaded, booted, page, isInitialized, isInitializing,
                 store, resetPc>>

\* A failure handler that releases the guard, as a try/finally around the
\* await would.
LoadFailReleasing(c) ==
  /\ Answers("get", c)
  /\ cycles' = [cycles EXCEPT ![c] = Ended("threw")]
  /\ elems' = Collect(elems, page, cycles')
  /\ queue' = Tail(queue)
  /\ isInitializing' = FALSE
  /\ UNCHANGED <<timerOn, origin, loaded, booted, page, mutations, isInitialized,
                 counters, store, resetPc>>

\* A failure handler that saves the extracted packages before it lets the
\* error go on, as a try/finally around the body with the save in the
\* finally block would.
LoadFailSaving(c) ==
  /\ Answers("get", c)
  /\ queue' = Append(Tail(queue),
                     Request("set", c, packagesToStore(cycles[c].currentPackages)))
  /\ cycles' = [cycles EXCEPT ![c] = Ended("threw")]
  /\ elems' = Collect(elems, page, cycles')
  /\ UNCHANGED <<timerOn, origin, loaded, booted, page, mutations, isInitialized,
                 isInitializing, counters, store, resetPc>>

\* storage.get rejects: initializeState throws at line 542.
LoadFail(c) ==
  /\ Answers("get", c)
  /\ cycles' = [cycles EXCEPT ![c] = Ended("threw")]
  /\ elems' = Collect(elems, page, cycles')
  /\ queue' = Tail(queue)
  /\ UNCHANGED <<timerOn, origin, loaded, booted, page, mutations, isInitialized,
                 isInitializing, counters, store, resetPc>>

\* A save that adds to the stored packages instead of replacing them.
SaveOkMerging(c) ==
  /\ Answers("set", c)
  /\ store' = Stored(loadedPackages(store) \o Head(queue).value)
  /\ queue' = Tail(queue)
  /\ isInitialized' = TRUE
  /\ cycles' = [cycles EXCEPT ![c].pc = "returned"]
  /\ UNCHANGED <<timerOn, origin, loaded, booted, elems, page, mutations, isInitializing,
                 counters, resetPc>>

\* storage.set resolves: lines 645-647.
SaveOk(c) ==
  /\ Answers("set", c)
  /\ store' = Stored(Head(queue).value)
  /\ queue' = Tail(queue)
  /\ isInitialized' = TRUE
  /\ cycles' = [cycles EXCEPT ![c].pc = "returned"]
  /\ UNCHANGED <<timerOn, origin, loaded, booted, elems, page, mutations, isInitializing,
                 counters, resetPc>>

\* storage.set rejects: initializeState throws at line 645.
SaveFail(c) ==
  /\ Answers("set", c)
  /\ cycles' = [cycles EXCEPT ![c] = Ended("threw")]
  /\ elems' = Collect(elems, page, cycles')
  /\ queue' = Tail(queue)
  /\ UNCHANGED <<timerOn, origin, loaded, booted, page, mutations, isInitialized,
                 isInitializing, counters, store, resetPc>>

\* A caller that releases the guard only after a cycle that found listings.
ReleaseAfterListingsOnly(c) ==
  /\ c \in 1..Len(cycles)
  /\ cycles[c].pc = "returned"
  /\ isInitializing' = (cycles[c].packages = << >>)
  /\ cycles' = IF cycles[c].packages = << >> /\ c = Len(cycles)
                THEN SubSeq(cycles, 1, c - 1)
                ELSE [cycles EXCEPT ![c] = Ended("done")]
  /\ elems' = Collect(elems, page, cycles')
  /\ UNCHANGED <<timerOn, origin, loaded, booted, page, mutations, isInitialized,
                 counters, store, queue, resetPc>>

\* beginInitialization resumes after `await initializeState()`: line 895.
\* An activation that found no listings leaves no trace.
Release(c) ==
  /\ c \in 1..Len(cycles)
  /\ cycles[c].pc = "returned"
  /\ isInitializing' = FALSE
  /\ cycles' = IF cycles[c].packages = << >> /\ c = Len(cycles)
                THEN SubSeq(cycles, 1, c - 1)
                ELSE [cycles EXCEPT ![c] = Ended("done")]
  /\ elems' = Collect(elems, page, cycles')
  /\ UNCHANGED <<timerOn, origin, loaded, booted, page, mutations, isInitialized,
                 counters, store, queue, resetPc>>

\* The calls of storage.clear by this page's reset handler that are still
\* awaited.
PendingClears(q) ==
  Cardinality({k \in 1..Len(q) : q[k].op = "clear" /\ q[k].by = 0})

\* resetButton.onclick up to its await: lines 820-827.  The button stays
\* clickable while an earlier click's clear() is awaited and after
\* location.reload() was called; a reload already called stays under way.
ResetClick ==
  /\ booted
  /\ PendingClears(queue) < MaxClears
  /\ isInitialized' = FALSE
  /\ newCount' = 0
  /\ offerChangedCount' = 0
  /\ priceChangedCount' = 0
  /\ queue' = Append(queue, Request("clear", 0, << >>))
  /\ resetPc' = IF resetPc = "reloading" THEN "reloading" ELSE "clearing"
  /\ UNCHANGED <<timerOn, origin, loaded, booted, elems, page, mutations, isInitializing,
                 cycles, store>>

ClearAnswers ==
  /\ queue # << >>
  /\ Head(queue).op = "clear"
  /\ Head(queue).by = 0

\* storage.clear resolves: location.reload() is called, line 829.
ClearOk ==
  /\ ClearAnswers
  /\ store' = Absent
  /\ queue' = Tail(queue)
  /\ resetPc' = "reloading"
  /\ UNCHANGED <<timerOn, origin, loaded, booted, elems, page, mutations, isInitialized,
                 isInitializing, counters, cycles>>

\* storage.clear rejects: the handler throws and calls no reload; a reload
\* asked for by another click stays under way.
ClearFail ==
  /\ ClearAnswers
  /\ queue' = Tail(queue)
  /\ resetPc' = IF resetPc = "reloading" THEN "reloading"
                ELSE IF PendingClears(Tail(queue)) > 0 THEN "clearing"
                ELSE "idle"
  /\ UNCHANGED <<timerOn, origin, loaded, booted, elems, page, mutations, isInitialized,
                 isInitializing, counters, cycles, store>>

\* The requests a page leaves behind when it is unloaded: nobody awaits
\* their answers (by = -1), and a read without a reader has no effect.
RECURSIVE Orphaned(_)
Orphaned(q) ==
  IF Len(q) = 0 THEN << >>
  ELSE IF Head(q).op = "get" THEN Orphaned(Tail(q))
  ELSE <<[Head(q) EXCEPT !.by = -1]>> \o Orphaned(Tail(q))

\* The page is unloaded: its script state and elements are gone, the
\* requests it sent are not.
Unload(how) ==
  /\ Len(Orphaned(queue)) <= MaxOrphans
  /\ origin' = how
  /\ loaded' = FALSE
  /\ booted' = FALSE
  /\ elems' = << >>
  /\ page' = << >>
  /\ mutations' = FALSE
  /\ isInitialized' = FALSE
  /\ isInitializing' = FALSE
  /\ newCount' = 0
  /\ offerChangedCount' = 0
  /\ priceChangedCount' = 0
  /\ cycles' = << >>
  /\ resetPc' = "idle"
  /\ timerOn' = FALSE
  /\ queue' = Orphaned(queue)
  /\ UNCHANGED store

\* The reload the reset handler asked for.
Navigate ==
  /\ resetPc = "reloading"
  /\ Unload("reset")

\* The user leaves the page, to reload or revisit it.
UserReload ==
  /\ booted
  /\ resetPc # "reloading"
  /\ Unload("user")

\* The page is loaded again and shows its listings; the content script has
\* not run yet.
Open ==
  /\ ~loaded
  /\ loaded' = TRUE
  /\ \E markup \in SeqsUpTo(PageListings, MaxElems) :
        /\ elems' = markup
        /\ page' = Ids(Len(markup))
  /\ UNCHANGED <<timerOn, origin, booted, mutations, isInitialized, isInitializing,
                 counters, cycles, store, queue, resetPc>>

\* The store carries out a write that a page had sent before it was
\* unloaded: a save replaces the whole set, a clear empties it (the store
\* adapter's contract).  That the browser still carries out such a request
\* is an assumption about the environment; nothing obliges this step to be
\* taken.
OrphanWrite ==
  /\ queue # << >>
  /\ Head(queue).by = -1
  /\ store' = IF Head(queue).op = "set" THEN Stored(Head(queue).value) ELSE Absent
  /\ queue' = Tail(queue)
  /\ UNCHANGED <<timerOn, origin, loaded, booted, elems, page, mutations, isInitialized,
                 isInitializing, counters, cycles, resetPc>>

\* The site adds a listing to the page.
AddListing ==
  /\ booted
  /\ Len(elems) < MaxElems
  /\ \E l \in PageListings :
        /\ elems' = Append(elems, l)
        /\ page' = Append(page, Len(elems) + 1)
  /\ mutations' = TRUE
  /\ UNCHANGED <<timerOn, origin, loaded, booted, isInitialized, isInitializing, counters,
                 cycles, store, queue, resetPc>>

\* The site empties its list of listings (before it renders it anew).
RemoveListings ==
  /\ booted
  /\ page # << >>
  /\ page' = << >>
  /\ elems' = Collect(elems, page', cycles)
  /\ mutations' = TRUE
  /\ UNCHANGED <<timerOn, origin, loaded, booted, isInitialized, isInitializing,
                 counters, cycles, store, queue, resetPc>>

Next ==
  \/ Start
  \/ ObserverCallback
  \/ \E c \in 1..MaxCycles : LoadOk(c)
  \/ \E c \in 1..MaxCycles : LoadFail(c)
  \/ \E c \in 1..MaxCycles : SaveOk(c)
  \/ \E c \in 1..MaxCycles : SaveFail(c)
  \/ \E c \in 1..MaxCycles : Release(c)
  \/ ResetClick
  \/ ClearOk
  \/ ClearFail
  \/ Navigate
  \/ UserReload
  \/ Open
  \/ OrphanWrite
  \/ AddListing
  \/ RemoveListings

Spec == Init /\ [][Next]_vars

(***************************************************************************)
(* Page views visited one after the other, each left only when its cycle   *)
(* is over and nothing is awaited, over all listings.                      *)
(***************************************************************************)
AnnotationTags == {"old-package-total", "old-price-info"}

NotAnnotation(node) == node.tag \notin AnnotationTags

\* A listing as the site serves it: without what the script added to it.
Served(el) ==
  [el EXCEPT !.classes = {},
             !.heading = SelectSeq(@, NotAnnotation),
             !.body = [i \in 1..Len(@) |->
                         [@[i] EXCEPT !.nodes = SelectSeq(@, NotAnnotation)]]]

QuietInit ==
  /\ origin = "user"
  /\ \E markup \in SeqsUpTo(Listings, MaxElems) : FreshPage(markup)
  /\ store = Absent
  /\ queue = << >>

\* The page view is over: the script has run, nothing is awaited.
Quiescent ==
  /\ booted
  /\ queue = << >>
  /\ ~isInitializing
  /\ ~mutations

\* A new page view showing markup.
Revisit(how, markup) ==
  /\ origin' = how
  /\ loaded' = TRUE
  /\ booted' = FALSE
  /\ elems' = markup
  /\ page' = Ids(Len(markup))
  /\ mutations' = FALSE
  /\ isInitialized' = FALSE
  /\ isInitializing' = FALSE
  /\ newCount' = 0
  /\ offerChangedCount' = 0
  /\ priceChangedCount' = 0
  /\ cycles' = << >>
  /\ resetPc' = "idle"
  /\ timerOn' = FALSE
  /\ UNCHANGED <<store, queue>>

\* The page is visited again after its cycle has completed, and the site
\* serves the same markup.
RevisitSame ==
  /\ Quiescent
  /\ isInitialized
  /\ Revisit("same", [i \in 1..Len(page) |-> Served(elems[page[i]])])

\* The page is visited again and the site serves other listings.
RevisitOther ==
  /\ Quiescent
  /\ \E markup \in SeqsUpTo(Listings, MaxElems) : Revisit("user", markup)

QuietNext ==
  \/ Start
  \/ ObserverCallback
  \/ \E c \in 1..MaxCycles : LoadOk(c)
  \/ \E c \in 1..MaxCycles : SaveOk(c)
  \/ \E c \in 1..MaxCycles : Release(c)
  \/ RevisitSame
  \/ RevisitOther

SpecQuiet == QuietInit /\ [][QuietNext]_vars

(***************************************************************************)
(* The revision driven by a polling timer and a mutation observer          *)
(* (content.js).  Its packages have the field efficiency and no element    *)
(* references; it marks the listings and shows no previous values.         *)
(***************************************************************************)
\* parsePackage(pkg) of content.js
parsePackage_content(el) ==
  [username   |-> QueryText(el.heading, "a"),
   total      |-> QueryText(el.heading, "strong"),
   efficiency |-> QueryText(el.heading, "efficiency-index"),
   cards      |-> MapSeq(stripCard, SortByName(CardsFrom(el.body, 1)))]

RECURSIVE parseAll_content(_, _, _)
parseAll_content(es, packages, i) ==
  IF i > Len(packages) THEN << >>
  ELSE <<parsePackage_content(es[packages[i]])>> \o parseAll_content(es, packages, i + 1)

getPackageKeyWithoutPrice(pkgObj) ==
  pkgObj.username \o <<"-">> \o pkgObj.efficiency \o <<"-">>
    \o Join(MapSeq(cardKey, pkgObj.cards), <<"|">>)

getFullPackageKey_content(pkgObj) ==
  pkgObj.username \o <<"-">> \o pkgObj.total \o <<"-">> \o pkgObj.efficiency
    \o <<"-">> \o Join(MapSeq(cardKeyWithPrice, pkgObj.cards), <<"|">>)

\* prevPackages.forEach(pkg => prevPackageMap.set(keyWithoutPrice, {fullKey, pkg}))
RECURSIVE BuildPackageMap(_, _)
BuildPackageMap(m, prevPackages) ==
  IF Len(prevPackages) = 0 THEN m
  ELSE LET pkg == prevPackages[1] IN
       BuildPackageMap(MapSet(m, getPackageKeyWithoutPrice(pkg),
                              [fullKey |-> getFullPackageKey_content(pkg), pkg |-> pkg]),
                       Tail(prevPackages))

prevPackageMap(prevPackages) == BuildPackageMap(EmptyMap, prevPackages)

\* The body of currentPackages.forEach of content.js: the mark of one package.
classifyPackage_content(map, currPkg) ==
  LET keyWithoutPrice == getPackageKeyWithoutPrice(currPkg)
      fullKey == getFullPackageKey_content(currPkg)
  IN IF keyWithoutPrice \notin DOMAIN map THEN "package-new"
     ELSE LET prevData == map[keyWithoutPrice] IN
          IF prevData.fullKey = fullKey THEN "unchanged"
          ELSE IF currPkg.efficiency # prevData.pkg.efficiency
          THEN "package-offer-changed"
          ELSE "package-price-changed"

classifyAll_content(currentPackages, stored) ==
  LET map == prevPackageMap(loadedPackages(stored)) IN
  [i \in 1..Len(currentPackages) |-> classifyPackage_content(map, currentPackages[i])]

\* pkgElement.classList.add(...) for every package
RECURSIVE markAll(_, _, _, _)
markAll(es, packages, results, i) ==
  IF i > Len(results) THEN es
  ELSE markAll([es EXCEPT ![packages[i]].classes =
                   IF results[i] = "unchanged" THEN @ ELSE @ \cup {results[i]}],
               packages, results, i + 1)

\* initializeState() of content.js up to its await or its return.  Nothing
\* awaits the call: a return or an exception before the await leaves no
\* trace.
InitializeState_content ==
  IF isInitialized \/ Len(page) = 0
        \/ \E i \in 1..Len(page) : parsePackageThrows(elems[page[i]])
  THEN UNCHANGED <<cycles, queue>>
  ELSE /\ Len(cycles) < MaxCycles
       /\ cycles' = Append(cycles,
                           Activation("load", page, parseAll_content(elems, page, 1)))
       /\ queue' = Append(queue, Request("get", Len(cycles) + 1, << >>))

\* The content script's top level: the interval and the observer are
\* registered.
Boot_content ==
  /\ loaded
  /\ ~booted
  /\ booted' = TRUE
  /\ timerOn' = TRUE
  /\ UNCHANGED <<origin, loaded, elems, page, mutations, isInitialized,
                 isInitializing, counters, cycles, store, queue, resetPc>>

\* The interval's callback.
TimerTick ==
  /\ booted
  /\ timerOn
  /\ IF ~isInitialized
     THEN InitializeState_content /\ UNCHANGED timerOn
     ELSE timerOn' = FALSE /\ UNCHANGED <<cycles, queue>>
  /\ UNCHANGED <<origin, loaded, booted, elems, page, mutations, isInitialized,
                 isInitializing, counters, store, resetPc>>

\* The MutationObserver callback of content.js.
ObserverCallback_content ==
  /\ booted
  /\ mutations
  /\ mutations' = FALSE
  /\ IF ~isInitialized
     THEN InitializeState_content
     ELSE UNCHANGED <<cycles, queue>>
  /\ UNCHANGED <<timerOn, origin, loaded, booted, elems, page, isInitialized,
                 isInitializing, counters, store, resetPc>>

\* storage.get resolves: content.js lines 66-107, up to the second await.
\* Adding a class is no childList mutation.
LoadOk_content(c) ==
  /\ Answers("get", c)
  /\ LET cur == cycles[c].currentPackages
         results == classifyAll_content(cur, store)
     IN /\ elems' = markAll(elems, cycles[c].packages, results, 1)
        /\ cycles' = [cycles EXCEPT ![c] = [@ EXCEPT !.pc = "save",
                                                     !.prevPackages = loadedPackages(store),
                                                     !.results = results]]
        /\ queue' = Append(Tail(queue), Request("set", c, cur))
  /\ UNCHANGED <<timerOn, origin, loaded, booted, page, mutations, isInitialized,
                 isInitializing, counters, store, resetPc>>

\* storage.get rejects.
LoadFail_content(c) ==
  /\ Answers("get", c)
  /\ cycles' = [cycles EXCEPT ![c] = Ended("threw")]
  /\ elems' = Collect(elems, page, cycles')
  /\ queue' = Tail(queue)
  /\ UNCHANGED <<timerOn, origin, loaded, booted, page, mutations, isInitialized,
                 isInitializing, counters, store, resetPc>>

\* storage.set resolves: content.js lines 107-109.
SaveOk_content(c) ==
  /\ Answers("set", c)
  /\ store' = Stored(Head(queue).value)
  /\ queue' = Tail(queue)
  /\ isInitialized' = TRUE
  /\ cycles' = [cycles EXCEPT ![c] = Ended("done")]
  /\ elems' = Collect(elems, page, cycles')
  /\ UNCHANGED <<timerOn, origin, loaded, booted, page, mutations,
                 isInitializing, counters, resetPc>>

\* storage.set rejects.
SaveFail_content(c) ==
  /\ Answers("set", c)
  /\ cycles' = [cycles EXCEPT ![c] = Ended("threw")]
  /\ elems' = Collect(elems, page, cycles')
  /\ queue' = Tail(queue)
  /\ UNCHANGED <<timerOn, origin, loaded, booted, page, mutations, isInitialized,
                 isInitializing, counters, store, resetPc>>

\* resetButton.onclick of content.js up to its await.
ResetClick_content ==
  /\ booted
  /\ PendingClears(queue) < MaxClears
  /\ isInitialized' = FALSE
  /\ queue' = Append(queue, Request("clear", 0, << >>))
  /\ resetPc' = IF resetPc = "reloading" THEN "reloading" ELSE "clearing"
  /\ UNCHANGED <<timerOn, origin, loaded, booted, elems, page, mutations,
                 isInitializing, counters, cycles, store>>

Next_content ==
  \/ Boot_content
  \/ TimerTick
  \/ ObserverCallback_content
  \/ \E c \in 1..MaxCycles : LoadOk_content(c)
  \/ \E c \in 1..MaxCycles : LoadFail_content(c)
  \/ \E c \in 1..MaxCycles : SaveOk_content(c)
  \/ \E c \in 1..MaxCycles : SaveFail_content(c)
  \/ ResetClick_content
  \/ ClearOk
  \/ ClearFail
  \/ Navigate
  \/ UserReload
  \/ Open
  \/ OrphanWrite
  \/ AddListing
  \/ RemoveListings

SpecContent == Init /\ [][Next_content]_vars

(***************************************************************************)
(* The annotating timer-plus-observer revision (part_001, first file):     *)
(* the extractor, keys, classification and annotation of the latest        *)
(* revision under the controller of content.js.  It has no isInitializing  *)
(* flag, no counters and no legend counts.                                 *)
(***************************************************************************)
\* initializeState() of that revision up to its await or its return
\* (lines 89-105).  Nothing awaits the call.
InitializeState_annot ==
  IF isInitialized \/ Len(page) = 0
        \/ \E i \in 1..Len(page) : parsePackageThrows(elems[page[i]])
  THEN UNCHANGED <<cycles, queue>>
  ELSE /\ Len(cycles) < MaxCycles
       /\ cycles' = Append(cycles, Activation("load", page, parseAll(elems, page, 1)))
       /\ queue' = Append(queue, Request("get", Len(cycles) + 1, << >>))

\* The script's top level: addControls(), setInterval, observer.observe.
Boot_annot ==
  /\ loaded
  /\ ~booted
  /\ booted' = TRUE
  /\ timerOn' = TRUE
  /\ UNCHANGED <<origin, loaded, elems, page, mutations, isInitialized,
                 isInitializing, counters, cycles, store, queue, resetPc>>

\* The interval's callback (lines 376-382).
TimerTick_annot ==
  /\ booted
  /\ timerOn
  /\ IF ~isInitialized
     THEN InitializeState_annot /\ UNCHANGED timerOn
     ELSE timerOn' = FALSE /\ UNCHANGED <<cycles, queue>>
  /\ UNCHANGED <<origin, loaded, booted, elems, page, mutations, isInitialized,
                 isInitializing, counters, store, resetPc>>

\* The MutationObserver callback (lines 385-389).
ObserverCallback_annot ==
  /\ booted
  /\ mutations
  /\ mutations' = FALSE
  /\ IF ~isInitialized
     THEN InitializeState_annot
     ELSE UNCHANGED <<cycles, queue>>
  /\ UNCHANGED <<timerOn, origin, loaded, booted, elems, page, isInitialized,
                 isInitializing, counters, store, resetPc>>

\* A node was appended below a listing element of the page: a childList
\* mutation in the observed subtree.  Adding a class is none, and neither is
\* a node appended to an element the site has removed from the page.
NodesAppended(pg, es, fs) ==
  \E i \in 1..Len(pg) :
     es[pg[i]].heading # fs[pg[i]].heading \/ es[pg[i]].body # fs[pg[i]].body

\* storage.get resolves: lines 105-203, up to the await of storage.set.
LoadOk_annot(c) ==
  /\ Answers("get", c)
  /\ LET cur == cycles[c].currentPackages
         results == classifyAll(cur, store)
     IN /\ elems' = annotateAll(elems, cycles[c].packages, cur, results, 1)
        /\ cycles' = [cycles EXCEPT ![c] = [@ EXCEPT !.pc = "save",
                                                     !.prevPackages = loadedPackages(store),
                                                     !.results = results]]
        /\ queue' = Append(Tail(queue), Request("set", c, packagesToStore(cur)))
  /\ mutations' = (mutations \/ NodesAppended(page, elems, elems'))
  /\ UNCHANGED <<timerOn, origin, loaded, booted, page, isInitialized, isInitializing,
                 counters, store, resetPc>>

\* storage.get rejects.
LoadFail_annot(c) ==
  /\ Answers("get", c)
  /\ cycles' = [cycles EXCEPT ![c] = Ended("threw")]
  /\ elems' = Collect(elems, page, cycles')
  /\ queue' = Tail(queue)
  /\ UNCHANGED <<timerOn, origin, loaded, booted, page, mutations, isInitialized,
                 isInitializing, counters, store, resetPc>>

\* storage.set resolves: lines 203-205.
SaveOk_annot(c) ==
  /\ Answers("set", c)
  /\ store' = Stored(Head(queue).value)
  /\ queue' = Tail(queue)
  /\ isInitialized' = TRUE
  /\ cycles' = [cycles EXCEPT ![c] = Ended("done")]
  /\ elems' = Collect(elems, page, cycles')
  /\ UNCHANGED <<timerOn, origin, loaded, booted, page, mutations,
                 isInitializing, counters, resetPc>>

\* storage.set rejects.
SaveFail_annot(c) ==
  /\ Answers("set", c)
  /\ cycles' = [cycles EXCEPT ![c] = Ended("threw")]
  /\ elems' = Collect(elems, page, cycles')
  /\ queue' = Tail(queue)
  /\ UNCHANGED <<timerOn, origin, loaded, booted, page, mutations, isInitialized,
                 isInitializing, counters, store, resetPc>>

\* resetButton.onclick of that revision up to its await (lines 309-313).
ResetClick_annot ==
  /\ booted
  /\ PendingClears(queue) < MaxClears
  /\ isInitialized' = FALSE
  /\ queue' = Append(queue, Request("clear", 0, << >>))
  /\ resetPc' = IF resetPc = "reloading" THEN "reloading" ELSE "clearing"
  /\ UNCHANGED <<timerOn, origin, loaded, booted, elems, page, mutations,
                 isInitializing, counters, cycles, store>>

Next_annot ==
  \/ Boot_annot
  \/ TimerTick_annot
  \/ ObserverCallback_annot
  \/ \E c \in 1..MaxCycles : LoadOk_annot(c)
  \/ \E c \in 1..MaxCycles : LoadFail_annot(c)
  \/ \E c \in 1..MaxCycles : SaveOk_annot(c)
  \/ \E c \in 1..MaxCycles : SaveFail_annot(c)
  \/ ResetClick_annot
  \/ ClearOk
  \/ ClearFail
  \/ Navigate
  \/ UserReload
  \/ Open
  \/ OrphanWrite
  \/ AddListing
  \/ RemoveListings

SpecAnnot == Init /\ [][Next_annot]_vars

(***************************************************************************)
(* One page view of the latest revision in which every store operation     *)
(* succeeds and every mutation record is delivered: the setting of the     *)
(* liveness property.  The continuation of `await initializeState()` is a  *)
(* microtask queued when initializeState returns, so it runs before any    *)
(* task of the site and before any later observer callback.                *)
(***************************************************************************)
\* beginInitialization's continuation is queued.
ResumePending == \E c \in 1..Len(cycles) : cycles[c].pc = "returned"

\* The observer's callback is run with the records of the site's or the
\* script's own mutations.
Deliver == ~ResumePending /\ ObserverCallback

\* Tasks of the site.
SiteAdds == ~ResumePending /\ AddListing

SiteEmpties == ~ResumePending /\ RemoveListings

LiveNext ==
  \/ Start
  \/ Deliver
  \/ \E c \in 1..MaxCycles : LoadOk(c)
  \/ \E c \in 1..MaxCycles : SaveOk(c)
  \/ \E c \in 1..MaxCycles : Release(c)
  \/ SiteAdds
  \/ SiteEmpties

\* The script is run, answers arrive, continuations and callbacks are run.
LiveFairness ==
  /\ WF_vars(Start)
  /\ WF_vars(Deliver)
  /\ WF_vars(\E c \in 1..MaxCycles : LoadOk(c))
  /\ WF_vars(\E c \in 1..MaxCycles : SaveOk(c))
  /\ WF_vars(\E c \in 1..MaxCycles : Release(c))

SpecLive == Init /\ [][LiveNext]_vars /\ LiveFairness

(***************************************************************************)
(* One listing compared with a previous set: the latest revision's cycle   *)
(* on a page of one listing, for every listing and every previous set a    *)
(* page of the listings below can have left in the store.                  *)
(***************************************************************************)
Card1(price) == <<Li(Empty, <<"f">>, <<"n">>, price)>>

\* ListingA with another offer percentage, another card price and total
ListingD == Pkg(<<"a">>, <<"$", "4">>, <<"8", "%">>, Card1(<<"$", "2">>))
\* ListingA with another total only
ListingT == Pkg(<<"a">>, <<"$", "4">>, <<"7", "%">>, Card1(<<"$", "1">>))
\* ListingA with the same percentage in another efficiency text
ListingX == Pkg(<<"a">>, <<"$", "3">>, <<"7", "%", "x">>, Card1(<<"$", "1">>))
\* ListingE with its cards in the other markup order
ListingR == Pkg(<<"b">>, <<"$", "3">>, <<"7", "%">>,
                <<Li(Empty, <<"f">>, <<"n">>, <<"$", "1">>),
                  Li(<<"2", "x", " ">>, <<"g">>, <<"p">>, <<"$", "1">>)>>)
\* two cards of one name and different conditions, in both markup orders
ListingM == Pkg(<<"m">>, <<"$", "3">>, <<"7", "%">>,
                <<Li(Empty, <<"f">>, <<"n">>, <<"$", "1">>),
                  Li(Empty, <<"f">>, <<"m">>, <<"$", "1">>)>>)
ListingN == Pkg(<<"m">>, <<"$", "3">>, <<"7", "%">>,
                <<Li(Empty, <<"f">>, <<"m">>, <<"$", "1">>),
                  Li(Empty, <<"f">>, <<"n">>, <<"$", "1">>)>>)
\* two cards of one quantity, name and condition; then with the second
\* card's price and the total changed
ListingG == Pkg(<<"g">>, <<"$", "3">>, <<"7", "%">>,
                <<Li(Empty, <<"f">>, <<"n">>, <<"$", "1">>),
                  Li(Empty, <<"f">>, <<"n">>, <<"$", "2">>)>>)
ListingP == Pkg(<<"g">>, <<"$", "4">>, <<"7", "%">>,
                <<Li(Empty, <<"f">>, <<"n">>, <<"$", "1">>),
                  Li(Empty, <<"f">>, <<"n">>, <<"$", "3">>)>>)
\* texts that contain the separators of the keys: the space of a card
\* signature, the '|' between signatures, the '-' after the seller
ListingS1 == Pkg(<<"a">>, <<"$", "3">>, <<"7", "%">>,
                 <<Li(Empty, <<"f", " ", "g">>, <<"n">>, <<"$", "1">>)>>)
ListingS2 == Pkg(<<"a">>, <<"$", "3">>, <<"7", "%">>,
                 <<Li(Empty, <<"f">>, <<"g", " ", "n">>, <<"$", "1">>)>>)
ListingB1 == Pkg(<<"p">>, <<"$", "3">>, <<"7", "%">>,
                 <<Li(Empty, <<"f">>, <<"n">>, <<"$", "1">>),
                   Li(Empty, <<"g">>, <<"n">>, <<"$", "1">>)>>)
ListingB2 == Pkg(<<"p">>, <<"$", "3">>, <<"7", "%">>,
                 <<Li(Empty, <<"f">>, <<"n", "|", "1", "x", " ", "g", " ", "n">>,
                      <<"$", "1">>)>>)
ListingH1 == Pkg(<<"x", "-", "1", "x", " ", "f", " ", "n">>, <<"$", "3">>, <<"7", "%">>,
                 << >>)
ListingH2 == Pkg(<<"x">>, <<"$", "3">>, <<"7", "%">>,
                 <<Li(Empty, <<"f">>, <<"n", "-">>, <<"$", "1">>)>>)

DiffListings ==
  Listings \cup {ListingD, ListingT, ListingX, ListingR, ListingM, ListingN,
                 ListingG, ListingP, ListingS1, ListingS2, ListingB1, ListingB2,
                 ListingH1, ListingH2}

\* What a cycle on a page showing markup leaves in the store.
LeftBy(markup) ==
  IF markup = << >> THEN Absent
  ELSE Stored(packagesToStore(parseAll(markup, Ids(Len(markup)), 1)))

DiffInit ==
  /\ origin = "user"
  /\ \E l \in DiffListings : FreshPage(<<l>>)
  /\ \E markup \in SeqsUpTo(DiffListings, MaxPrev) : store = LeftBy(markup)
  /\ queue = << >>

DiffNext ==
  \/ Start
  \/ ObserverCallback
  \/ \E c \in 1..MaxCycles : LoadOk(c)
  \/ \E c \in 1..MaxCycles : SaveOk(c)
  \/ \E c \in 1..MaxCycles : Release(c)

SpecDiff == DiffInit /\ [][DiffNext]_vars

(***************************************************************************)
(* One listing compared with a previous set by content.js.                 *)
(***************************************************************************)
\* What a cycle of content.js on a page showing markup leaves in the store.
LeftBy_content(markup) ==
  IF markup = << >> THEN Absent
  ELSE Stored(parseAll_content(markup, Ids(Len(markup)), 1))

DiffInit_content ==
  /\ origin = "user"
  /\ \E l \in DiffListings : FreshPage(<<l>>)
  /\ \E markup \in SeqsUpTo(DiffListings, MaxPrev) : store = LeftBy_content(markup)
  /\ queue = << >>

\* The marks are class changes, which the observer is not told of: only the
\* interval triggers.
DiffNext_content ==
  \/ Boot_content
  \/ TimerTick
  \/ \E c \in 1..MaxCycles : LoadOk_content(c)
  \/ \E c \in 1..MaxCycles : SaveOk_content(c)

SpecContentDiff == DiffInit_content /\ [][DiffNext_content]_vars

(***************************************************************************)
(* The continuation of the load (lines 542-645) taken apart: the lookup    *)
(* maps, then the classification loop one listing at a time, then the      *)
(* legend and the save request.  It is one synchronous block, so nothing   *)
(* else runs between these steps; pc "loop" marks an activation inside it, *)
(* with one result for every listing the loop has gone through.            *)
(***************************************************************************)
\* storage.get resolves: prevPackages and the lookup maps, lines 542-565.
LoadAnswered(c) ==
  /\ Answers("get", c)
  /\ cycles' = [cycles EXCEPT ![c] = [@ EXCEPT !.pc = "loop",
                                               !.prevPackages = loadedPackages(store)]]
  /\ queue' = Tail(queue)
  /\ UNCHANGED <<timerOn, origin, loaded, booted, elems, page, mutations, isInitialized,
                 isInitializing, counters, store, resetPc>>

Looping(c) == c \in 1..Len(cycles) /\ cycles[c].pc = "loop"

\* One pass of currentPackages.forEach, lines 568-624: the listing is
\* classified, counted and its element annotated.  Nodes appended below an
\* element of the page queue a mutation record.
LoopStep(c) ==
  /\ Looping(c)
  /\ Len(cycles[c].results) < Len(cycles[c].currentPackages)
  /\ LET a == cycles[c]
         k == Len(a.results) + 1
         r == classifyPackage(prevBasePackageMap(a.prevPackages), a.currentPackages[k])
     IN /\ elems' = [elems EXCEPT ![a.packages[k]] =
                        annotateElement(@, a.currentPackages[k], r)]
        /\ newCount' = newCount + (IF r.class = "package-new" THEN 1 ELSE 0)
        /\ offerChangedCount' =
             offerChangedCount + (IF r.class = "package-offer-changed" THEN 1 ELSE 0)
        /\ priceChangedCount' =
             priceChangedCount + (IF r.class = "package-price-changed" THEN 1 ELSE 0)
        /\ cycles' = [cycles EXCEPT ![c].results = Append(@, r)]
  /\ mutations' = (mutations \/ NodesAppended(page, elems, elems'))
  /\ UNCHANGED <<timerOn, origin, loaded, booted, page, isInitialized,
                 isInitializing, store, queue, resetPc>>

\* After the loop: updateLegendCounts, packagesToStore, storage.set is
\* called, lines 627-645.
LoopEnd(c) ==
  /\ Looping(c)
  /\ Len(cycles[c].results) = Len(cycles[c].currentPackages)
  /\ cycles' = [cycles EXCEPT ![c].pc = "save"]
  /\ queue' = Append(queue, Request("set", c, packagesToStore(cycles[c].currentPackages)))
  /\ mutations' = TRUE
  /\ UNCHANGED <<timerOn, origin, loaded, booted, elems, page, isInitialized,
                 isInitializing, counters, store, resetPc>>

\* The observer's callback is run when no synchronous block is under way.
DeliverOutsideLoop ==
  /\ \A c \in 1..Len(cycles) : ~Looping(c)
  /\ ObserverCallback

LoopNext ==
  \/ Start
  \/ DeliverOutsideLoop
  \/ \E c \in 1..MaxCycles : LoadAnswered(c)
  \/ \E c \in 1..MaxCycles : LoopStep(c)
  \/ \E c \in 1..MaxCycles : LoopEnd(c)
  \/ \E c \in 1..MaxCycles : SaveOk(c)
  \/ \E c \in 1..MaxCycles : Release(c)
  \/ RevisitSame
  \/ RevisitOther

SpecLoop == QuietInit /\ [][LoopNext]_vars

(***************************************************************************)
(* Properties.                                                             *)
(***************************************************************************)
\* An activation that has extracted and has not finished: it awaits the
\* store's load or save.
InFlight(c) == cycles[c].pc \in {"load", "save"}

CyclesInFlight == {c \in 1..Len(cycles) : InFlight(c)}

\* A step in which a trigger is handled: the top-level call of
\* beginInitialization, or the observer's callback.
TriggerStep ==
  \/ ~booted /\ booted'
  \/ booted /\ booted' /\ mutations /\ ~mutations'

\* C1: in the latest revision at most one cycle is in flight at any time,
\* and a trigger handled while isInitializing or isInitialized is set
\* extracts nothing, sends the store nothing and annotates nothing.
C1_AtMostOneCycle ==
  /\ [](Cardinality(CyclesInFlight) <= 1)
  /\ [][TriggerStep /\ (isInitializing \/ isInitialized)
          => UNCHANGED <<cycles, queue, elems, store, counters>>]_vars

\* A cycle is in flight, a listing was added after it extracted, and the
\* observer has already been told.
C1_Witness ==
  \E c \in CyclesInFlight :
     /\ Len(page) > Len(cycles[c].packages)
     /\ ~mutations
     /\ isInitializing

\* C2: in the timer-and-observer revision, a trigger that arrives while a
\* cycle awaits the store's load or save starts no second concurrent cycle.
C2_NoSecondConcurrentCycle == \A c, d \in CyclesInFlight : c = d

\* An activation of this page view has completed its save.
ReachedDone ==
  \E c \in 1..Len(cycles) :
     \/ cycles[c].pc = "done"
     \/ cycles[c].pc = "returned" /\ cycles[c].packages # << >>

\* A step in which an activation extracts the page's listings.
StartsCycle ==
  /\ Len(cycles') > Len(cycles)
  /\ cycles'[Len(cycles')].pc \in {"load", "threw"}

\* C3: Done is terminal: once a save has completed in a page view, no
\* further cycle executes in it, whatever events follow.
C3_DoneIsTerminal == [][ReachedDone => ~StartsCycle]_vars

\* C5: in a page view opened by the reset handler's reload, the first cycle
\* loads an empty previous set and classifies every listing as New.
C5_ResetClassifiesAllNew ==
  (origin = "reset" /\ Len(cycles) >= 1 /\ cycles[1].pc = "save")
    => /\ cycles[1].prevPackages = << >>
       /\ \A i \in 1..Len(cycles[1].results) :
             cycles[1].results[i].class = "package-new"

\* An activation of this page view has thrown.
SomeCycleThrew == \E c \in 1..Len(cycles) : cycles[c].pc = "threw"

\* C6: after a cycle has failed (the store's load or save rejected), the
\* guard stays set and no later trigger of the page view starts anything.
C6_FailureKeepsGuard ==
  /\ [](SomeCycleThrew => isInitializing)
  /\ [][SomeCycleThrew =>
          /\ Len(cycles') <= Len(cycles)
          /\ TriggerStep => UNCHANGED <<cycles, queue, elems, store, counters>>]_vars

\* A cycle has failed, listings are on the page, every mutation has been
\* reported to the observer, and nothing is awaited.
C6_Witness ==
  /\ SomeCycleThrew
  /\ ~isInitialized
  /\ page # << >>
  /\ \A i \in 1..Len(page) : elems[page[i]].hasHeading
  /\ ~mutations
  /\ queue = << >>

\* The step in which activation c's save completes.
SaveCompletes(c) ==
  /\ c \in 1..Len(cycles)
  /\ cycles[c].pc = "save"
  /\ c \in 1..Len(cycles')
  /\ cycles'[c].pc = "returned"

\* C7: when a cycle's save completes, the persisted set is exactly the
\* snapshots that cycle extracted, in page order, and holds no package of
\* the set persisted before that is not among them.
C7_SaveReplaces ==
  [][\A c \in 1..MaxCycles :
       SaveCompletes(c) =>
         /\ store' = Stored(packagesToStore(cycles[c].currentPackages))
         /\ \A k \in 1..Len(loadedPackages(store)) :
              (\E j \in 1..Len(store'.packageData) :
                  store'.packageData[j] = store.packageData[k])
              => \E i \in 1..Len(cycles[c].currentPackages) :
                    stripPackage(cycles[c].currentPackages[i]) = store.packageData[k]]_vars

\* A save has completed that dropped a package of the set it had loaded.
C7_Witness ==
  \E c \in 1..Len(cycles) :
     /\ cycles[c].pc = "returned"
     /\ cycles[c].packages # << >>
     /\ store = Stored(packagesToStore(cycles[c].currentPackages))
     /\ \E k \in 1..Len(cycles[c].prevPackages) :
           \A j \in 1..Len(store.packageData) :
              store.packageData[j] # cycles[c].prevPackages[k]

\* The packages the page shows now, as the extractor sees them.
PageSnapshots == packagesToStore(parseAll(elems, page, 1))

\* C8 as claimed: when a save completes, the persisted set has one snapshot
\* per package on the page at that time.
C8_SavedIsPageAtSave ==
  [][\A c \in 1..MaxCycles :
       SaveCompletes(c) =>
         /\ \A i \in 1..Len(page') : elems'[page'[i]].hasHeading
         /\ store'.packageData = PageSnapshots']_vars

\* C8 amended: when a save completes, the persisted set has one snapshot per
\* package that was on the page when the cycle extracted, whatever was added
\* to or removed from the page since.
C8_SavedIsPageAtExtraction ==
  [][\A c \in 1..MaxCycles :
       SaveCompletes(c) =>
         /\ Len(store'.packageData) = Len(cycles[c].packages)
         /\ \A i \in 1..Len(cycles[c].packages) :
              store'.packageData[i] =
                stripPackage(parsePackage(elems[cycles[c].packages[i]],
                                          cycles[c].packages[i]))]_vars

\* A save has completed for a page that changed while the cycle ran.
C8_Witness ==
  \E c \in 1..Len(cycles) :
     /\ cycles[c].pc = "returned"
     /\ cycles[c].packages # << >>
     /\ store = Stored(packagesToStore(cycles[c].currentPackages))
     /\ page # cycles[c].packages

\* The results of activation c are available: it has classified.
Classified(c) ==
  /\ c \in 1..Len(cycles)
  /\ \/ cycles[c].pc = "save"
     \/ cycles[c].pc = "returned" /\ cycles[c].packages # << >>

AllUnchanged(results) ==
  \A i \in 1..Len(results) : results[i].class = "unchanged"

\* The step in which the save of a revisit with the same markup completes.
SecondSaveCompletes == origin = "same" /\ SaveCompletes(1)

\* C4 as claimed: run again in a new page view on unchanged markup, the
\* cycle classifies every listing as unchanged and persists a set equal to
\* the one persisted by the first run.
C4_SecondRunUnchanged ==
  /\ []((origin = "same" /\ Classified(1)) => AllUnchanged(cycles[1].results))
  /\ [][SecondSaveCompletes => store' = store]_vars

\* Listings that share a base key agree on the key with percentage and on
\* the full key.
SameBaseSameKeys(currentPackages) ==
  \A i, j \in 1..Len(currentPackages) :
     getBasePackageKey(currentPackages[i]) = getBasePackageKey(currentPackages[j])
       => /\ getPackageKeyWithPercentage(currentPackages[i])
               = getPackageKeyWithPercentage(currentPackages[j])
          /\ getFullPackageKey(currentPackages[i]) = getFullPackageKey(currentPackages[j])

\* C4 amended: the second run classifies every listing as unchanged when the
\* listings of the page that share a base key agree on their other keys, and
\* it persists a set equal to the first run's in every case.
C4_SecondRunUnchangedIfKeysAgree ==
  /\ []((origin = "same" /\ Classified(1) /\ SameBaseSameKeys(cycles[1].currentPackages))
          => AllUnchanged(cycles[1].results))
  /\ [][SecondSaveCompletes => store' = store]_vars

\* The second run on a page of two different listings has saved.
C4_Witness ==
  /\ origin = "same"
  /\ Len(cycles) = 1
  /\ cycles[1].pc = "returned"
  /\ Len(cycles[1].currentPackages) = 2
  /\ getBasePackageKey(cycles[1].currentPackages[1])
       # getBasePackageKey(cycles[1].currentPackages[2])
  /\ AllUnchanged(cycles[1].results)
  /\ store = Stored(packagesToStore(cycles[1].currentPackages))

Classes == {"package-new", "package-offer-changed", "package-price-changed", "unchanged"}

\* The previous-total markers element el carries.
TotalMarkers(el) == Len(SelectSeq(el.heading, LAMBDA n : n.tag = "old-package-total"))

\* C9: a cycle produces one classification per current listing, each one of
\* the four classes, and the i-th is the one applied to the i-th element.
C9_OneClassificationEach ==
  Classified(1) =>
    LET a == cycles[1] IN
    /\ a.currentPackages # << >>
    /\ Len(a.results) = Len(a.currentPackages)
    /\ Len(a.packages) = Len(a.currentPackages)
    /\ \A i \in 1..Len(a.results) :
         /\ a.results[i].class \in Classes
         /\ a.currentPackages[i].element = a.packages[i]
         /\ elems[a.packages[i]].classes = {a.results[i].class} \ {"unchanged"}
         /\ TotalMarkers(elems[a.packages[i]])
              = IF a.results[i].class \in {"package-offer-changed", "package-price-changed"}
                THEN 1 ELSE 0

\* A cycle has classified two listings differently, against a previous set.
C9_Witness ==
  /\ Classified(1)
  /\ cycles[1].prevPackages # << >>
  /\ Len(cycles[1].results) = 2
  /\ cycles[1].results[1].class = "package-new"
  /\ cycles[1].results[2].class = "package-price-changed"

\* Some package of the previous set has the base key of pkg.
KnownBase(prevPackages, pkg) ==
  \E k \in 1..Len(prevPackages) :
     getBasePackageKey(prevPackages[k]) = getBasePackageKey(pkg)

\* The step in which activation 1's load completes.
LoadCompletes ==
  /\ Len(cycles) >= 1
  /\ cycles[1].pc = "load"
  /\ Len(cycles') >= 1
  /\ cycles'[1].pc = "save"

\* C10: a listing is classified new exactly when no package of the previous
\* set has its base key; with nothing stored every listing is new.
C10_NewIffNoBaseKey ==
  /\ [](Classified(1) =>
          \A i \in 1..Len(cycles[1].results) :
             cycles[1].results[i].class = "package-new"
               <=> ~KnownBase(cycles[1].prevPackages, cycles[1].currentPackages[i]))
  /\ [][(LoadCompletes /\ (store.absent \/ store.packageData = << >>))
          => \A i \in 1..Len(cycles'[1].results) :
                cycles'[1].results[i].class = "package-new"]_vars

\* Against a non-empty previous set, a cycle has classified one listing as
\* new and another, whose base key is known, as offer-changed.
C10_Witness ==
  /\ Classified(1)
  /\ cycles[1].prevPackages # << >>
  /\ \E i, j \in 1..Len(cycles[1].results) :
        /\ cycles[1].results[i].class = "package-new"
        /\ cycles[1].results[j].class = "package-offer-changed"

\* The components of the base key.
Signature(card) == <<card.quantity, card.name, card.condition>>
Signatures(pkg) == [j \in 1..Len(pkg.cards) |-> Signature(pkg.cards[j])]
SameOffer(p, q) == p.username = q.username /\ Signatures(p) = Signatures(q)

\* The previous snapshot a listing is compared with: the last one of the
\* previous set that has the listing's base key.
Matched(prevPackages, pkg) ==
  {k \in 1..Len(prevPackages) :
     getBasePackageKey(prevPackages[k]) = getBasePackageKey(pkg)}

Prior(prevPackages, pkg) ==
  prevPackages[CHOOSE k \in Matched(prevPackages, pkg) :
                  \A l \in Matched(prevPackages, pkg) : l <= k]

PayloadOf(p) == [shown |-> TRUE, total |-> p.total, efficiencyText |-> p.efficiencyText]

\* C11 as claimed: a listing that matches a previous snapshot on seller and
\* card signatures and differs from it in the percentage is offer-changed,
\* with that snapshot's total and efficiency text as payload.
C11_OfferChangedForAnyMatch ==
  Classified(1) =>
    LET a == cycles[1] IN
    \A i \in 1..Len(a.results) : \A k \in 1..Len(a.prevPackages) :
       (/\ SameOffer(a.prevPackages[k], a.currentPackages[i])
        /\ a.prevPackages[k].efficiencyPercentage
             # a.currentPackages[i].efficiencyPercentage)
       => /\ a.results[i].class = "package-offer-changed"
          /\ a.results[i].oldTotal = PayloadOf(a.prevPackages[k])

\* C11 amended: a listing whose percentage differs from that of the last
\* previous snapshot with its base key is offer-changed, never price-changed,
\* whatever else differs, with that snapshot's total and efficiency text as
\* payload.
C11_OfferChangedForPrior ==
  Classified(1) =>
    LET a == cycles[1] IN
    \A i \in 1..Len(a.results) :
       Matched(a.prevPackages, a.currentPackages[i]) # {} =>
         LET p == Prior(a.prevPackages, a.currentPackages[i]) IN
         p.efficiencyPercentage # a.currentPackages[i].efficiencyPercentage
           => /\ a.results[i].class = "package-offer-changed"
              /\ a.results[i].oldTotal = PayloadOf(p)
              /\ "package-price-changed" \notin elems[a.packages[i]].classes

\* A listing whose percentage, total and card price all differ from its
\* previous snapshot has been classified.
C11_Witness ==
  /\ Classified(1)
  /\ \E i \in 1..Len(cycles[1].results) :
        /\ Matched(cycles[1].prevPackages, cycles[1].currentPackages[i]) # {}
        /\ LET p == Prior(cycles[1].prevPackages, cycles[1].currentPackages[i])
               q == cycles[1].currentPackages[i]
           IN /\ SameOffer(p, q)
              /\ p.efficiencyPercentage # q.efficiencyPercentage
              /\ p.total # q.total
              /\ p.cards[1].price # q.cards[1].price
        /\ cycles[1].results[i].class = "package-offer-changed"

SomePriceDiffers(p, q) ==
  \E j \in 1..Len(q.cards) : p.cards[j].price # q.cards[j].price

\* C12 as claimed: a listing that shares seller, card signatures and
\* percentage with a previous snapshot and differs from it in the total and
\* in a card price is price-changed, with that snapshot's total and
\* efficiency text as payload.
C12_PriceChangedForAnyMatch ==
  Classified(1) =>
    LET a == cycles[1] IN
    \A i \in 1..Len(a.results) : \A k \in 1..Len(a.prevPackages) :
       (/\ SameOffer(a.prevPackages[k], a.currentPackages[i])
        /\ a.prevPackages[k].efficiencyPercentage
             = a.currentPackages[i].efficiencyPercentage
        /\ a.prevPackages[k].total # a.currentPackages[i].total
        /\ SomePriceDiffers(a.prevPackages[k], a.currentPackages[i]))
       => /\ a.results[i].class = "package-price-changed"
          /\ a.results[i].oldTotal = PayloadOf(a.prevPackages[k])

\* C12 amended: the same, for the last previous snapshot with the listing's
\* base key.
C12_PriceChangedForPrior ==
  Classified(1) =>
    LET a == cycles[1] IN
    \A i \in 1..Len(a.results) :
       Matched(a.prevPackages, a.currentPackages[i]) # {} =>
         LET p == Prior(a.prevPackages, a.currentPackages[i])
             q == a.currentPackages[i]
         IN (/\ SameOffer(p, q)
             /\ p.efficiencyPercentage = q.efficiencyPercentage
             /\ p.total # q.total
             /\ SomePriceDiffers(p, q))
            => /\ a.results[i].class = "package-price-changed"
               /\ a.results[i].oldTotal = PayloadOf(p)

\* A listing with another total and card price than its previous snapshot
\* has been classified price-changed.
C12_Witness ==
  /\ Classified(1)
  /\ \E i \in 1..Len(cycles[1].results) :
        /\ Matched(cycles[1].prevPackages, cycles[1].currentPackages[i]) # {}
        /\ LET p == Prior(cycles[1].prevPackages, cycles[1].currentPackages[i])
               q == cycles[1].currentPackages[i]
           IN /\ SameOffer(p, q)
              /\ p.efficiencyText = q.efficiencyText
              /\ p.total # q.total
              /\ SomePriceDiffers(p, q)
        /\ cycles[1].results[i].class = "package-price-changed"
        /\ cycles[1].results[i].oldTotal.shown

\* The listing at position i of activation 1 is price-changed.
PriceChangedAt(i) ==
  /\ Classified(1)
  /\ i \in 1..Len(cycles[1].results)
  /\ cycles[1].results[i].class = "package-price-changed"

\* C13: in a price-changed listing a previous price is attached to exactly
\* the cards whose price differs from the price of the same card of the
\* compared snapshot (the card at the same place of the sorted list), and
\* it is that card's previous price.
C13_OldPriceExactlyWhereChanged ==
  \A i \in 1..MaxElems :
     PriceChangedAt(i) =>
       LET q == cycles[1].currentPackages[i]
           p == Prior(cycles[1].prevPackages, q)
           old == cycles[1].results[i].oldCards
       IN SameOffer(p, q) =>
            \A j \in 1..Len(q.cards) :
               /\ old[j] # None <=> p.cards[j].price # q.cards[j].price
               /\ old[j] # None => old[j] = p.cards[j].price

\* Snapshot p has the seller, the cards with their prices, the total and
\* the efficiency text of the current package q.
SameSnapshot(p, q) ==
  /\ p.username = q.username
  /\ p.cards = MapSeq(stripCard, q.cards)
  /\ p.total = q.total
  /\ p.efficiencyText = q.efficiencyText

PriceMarkers(el) ==
  Cardinality({j \in 1..Len(el.body) :
                 \E n \in 1..Len(el.body[j].nodes) :
                    el.body[j].nodes[n].tag = "old-price-info"})

\* The listing at position i is unchanged: no mark, no payload, no marker
\* on its element, and the counters count the other listings only.
LeftUnchanged(i) ==
  LET a == cycles[1] IN
  /\ a.results[i].class = "unchanged"
  /\ a.results[i].oldTotal = NoOld
  /\ \A j \in 1..Len(a.results[i].oldCards) : a.results[i].oldCards[j] = None
  /\ elems[a.packages[i]].classes = {}
  /\ TotalMarkers(elems[a.packages[i]]) = 0
  /\ PriceMarkers(elems[a.packages[i]]) = 0
  /\ newCount + offerChangedCount + priceChangedCount
       = Cardinality({l \in 1..Len(a.results) : a.results[l].class # "unchanged"})

\* C14 as claimed: a listing for which the previous set contains a snapshot
\* with its seller, cards and prices, total and efficiency text is unchanged.
C14_UnchangedIfSetContains ==
  Classified(1) =>
    \A i \in 1..Len(cycles[1].results) :
       (\E k \in 1..Len(cycles[1].prevPackages) :
           SameSnapshot(cycles[1].prevPackages[k], cycles[1].currentPackages[i]))
       => LeftUnchanged(i)

\* C14 amended: a listing is unchanged when the last previous snapshot with
\* its base key has its seller, cards and prices, total and efficiency text.
C14_UnchangedIfPriorSame ==
  Classified(1) =>
    \A i \in 1..Len(cycles[1].results) :
       (/\ Matched(cycles[1].prevPackages, cycles[1].currentPackages[i]) # {}
        /\ SameSnapshot(Prior(cycles[1].prevPackages, cycles[1].currentPackages[i]),
                        cycles[1].currentPackages[i]))
       => LeftUnchanged(i)

\* A listing found in a previous set of two packages has been left
\* unchanged and its cycle has saved.
C14_Witness ==
  /\ Len(cycles) = 1
  /\ cycles[1].pc = "returned"
  /\ Len(cycles[1].prevPackages) = 2
  /\ Len(cycles[1].results) = 1
  /\ SameSnapshot(cycles[1].prevPackages[1], cycles[1].currentPackages[1])
  /\ LeftUnchanged(1)

\* The packages activation 1 has extracted.
Extracted == IF Len(cycles) >= 1 THEN cycles[1].currentPackages ELSE << >>

\* C15: two snapshots that differ in the seller or in the sequence of card
\* signatures never have equal base keys, and snapshots equal field by field
\* have equal keys.
C15_BaseKeyInjective ==
  \A i \in 1..Len(Extracted) : \A k \in 1..Len(loadedPackages(store)) :
     LET q == Extracted[i]
         p == store.packageData[k]
     IN /\ getBasePackageKey(p) = getBasePackageKey(q) => SameOffer(p, q)
        /\ p = stripPackage(q) =>
             /\ getBasePackageKey(p) = getBasePackageKey(q)
             /\ getPackageKeyWithPercentage(p) = getPackageKeyWithPercentage(q)
             /\ getFullPackageKey(p) = getFullPackageKey(q)

CardsOf(cards) == {cards[j] : j \in 1..Len(cards)}
Copies(cards, c) == Cardinality({j \in 1..Len(cards) : cards[j] = c})

\* p and q hold the same cards, each as many times.
SameCards(p, q) ==
  /\ Len(p.cards) = Len(q.cards)
  /\ \A c \in CardsOf(p.cards) \cup CardsOf(q.cards) :
        Copies(p.cards, c) = Copies(q.cards, c)

\* C16: two listings with the same cards in whatever markup order extract
\* to the same cards sequence and, the other fields being equal, to the same
\* base, percentage and full keys.
C16_CardOrderDeterministic ==
  \A i \in 1..Len(Extracted) : \A k \in 1..Len(loadedPackages(store)) :
     LET q == stripPackage(Extracted[i])
         p == store.packageData[k]
     IN SameCards(p, q) =>
          /\ p.cards = q.cards
          /\ [p EXCEPT !.cards = << >>] = [q EXCEPT !.cards = << >>] =>
               /\ getBasePackageKey(p) = getBasePackageKey(q)
               /\ getPackageKeyWithPercentage(p) = getPackageKeyWithPercentage(q)
               /\ getFullPackageKey(p) = getFullPackageKey(q)

\* C17: extraction never fails, so every cycle that finds listings goes on
\* to the store's load.
C17_ExtractionNeverFails ==
  [][StartsCycle => cycles'[Len(cycles')].pc = "load"]_vars

\* Activation c found no listings and has returned; its caller has not yet
\* resumed.
FoundNothing(c) ==
  /\ c \in 1..Len(cycles)
  /\ cycles[c].pc = "returned"
  /\ cycles[c].packages = << >>

\* C18: a trigger that finds no listings sends the store nothing and leaves
\* the persisted set, the elements and the flags as they are; when its
\* caller resumes the guard is released and nothing of the attempt remains,
\* so the guard is held only for an activation that runs, awaits its caller
\* or has thrown.
C18_ZeroListingsNoOp ==
  /\ [][(Len(cycles') > Len(cycles) /\ page = << >>)
          => /\ cycles'[Len(cycles')].pc = "returned"
             /\ cycles'[Len(cycles')].packages = << >>
             /\ UNCHANGED <<queue, store, elems, counters, isInitialized>>]_vars
  /\ [][\A c \in 1..MaxCycles :
          (FoundNothing(c) /\ booted' /\ cycles' # cycles)
            => /\ cycles' = SubSeq(cycles, 1, c - 1)
               /\ ~isInitializing'
               /\ ~isInitialized'
               /\ UNCHANGED <<queue, store>>]_vars
  /\ [](isInitializing => cycles # << >>)

\* With a persisted set in the store, a trigger has found no listings.
C18_Witness ==
  /\ FoundNothing(Len(cycles))
  /\ isInitializing
  /\ ~store.absent
  /\ queue = << >>

\* A save has completed in this page view of the timer-driven revision.
SaveDone == \E c \in 1..Len(cycles) : cycles[c].pc = "done"

\* A step of the interval's callback that starts a cycle: an activation is
\* added and no mutation record is consumed.
TickStartsCycle ==
  /\ timerOn
  /\ Len(cycles') > Len(cycles)
  /\ mutations' = mutations

\* C19: once the save has completed and isInitialized has been set, no timer
\* tick starts a cycle, and the interval is cancelled only then.
C19_TimerCancelledAtDone ==
  /\ [][SaveDone => ~TickStartsCycle]_vars
  /\ [][(timerOn /\ ~timerOn' /\ booted') => isInitialized]_vars

\* Activations of this page view that have issued their storage.set.
SavesIssued == {c \in 1..Len(cycles) : cycles[c].pc \in {"save", "done"}}

ClassMarks(el) == el.classes \cap {"package-new", "package-offer-changed",
                                   "package-price-changed"}

\* C20: in the annotating timer-plus-observer revision every listing element
\* of the page carries at most one classification mark and at most one
\* previous-total annotation, and at most one activation of a page view
\* issues the save.
C20_NoDoubleProcessing ==
  /\ \A i \in 1..Len(page) :
        /\ Cardinality(ClassMarks(elems[page[i]])) <= 1
        /\ TotalMarkers(elems[page[i]]) <= 1
  /\ Cardinality(SavesIssued) <= 1

\* A step in which a cycle ends by a failed load or a failed save.
CycleFails ==
  \E c \in 1..Len(cycles) :
     /\ InFlight(c)
     /\ Len(cycles') = Len(cycles)
     /\ cycles'[c].pc = "threw"

\* A step in which the page is unloaded while a cycle is in flight.
UnloadInterrupts == loaded /\ ~loaded' /\ CyclesInFlight # {}

\* The save of a cycle that was cut off by the unload of its page is next
\* in the store's queue.
OrphanedSaveNext ==
  /\ queue # << >>
  /\ Head(queue).by = -1
  /\ Head(queue).op = "set"

\* C21 (as stated): a cycle interrupted before its save completes, by a
\* failed load, a failed save or the unload of the page, leaves the
\* persisted set as it was; the write of a cycle cut off by the unload never
\* reaches the store.
C21_InterruptedLeavesStore ==
  /\ [][(CycleFails \/ UnloadInterrupts) => store' = store]_vars
  /\ [][(OrphanedSaveNext /\ queue' = Tail(queue)) => store' = store]_vars

\* The writes in q that activation c of this page view has sent.
SavesBy(q, c) == SelectSeq(q, LAMBDA r : r.op = "set" /\ r.by = c)

\* The writes in q, whoever sent them.
SavesIn(q) == SelectSeq(q, LAMBDA r : r.op = "set")

\* A cycle sends one write, the whole set it extracted, and only when its
\* load has been answered: an activation that awaits the save has exactly
\* that write in the store's queue, any other activation has none.
OneSaveAfterLoad ==
  \A c \in 1..Len(cycles) :
     SavesBy(queue, c) =
        IF cycles[c].pc = "save"
        THEN <<Request("set", c, packagesToStore(cycles[c].currentPackages))>>
        ELSE << >>

\* A step in which the page is unloaded while its cycles in flight all
\* await the load: none has issued its save.
UnloadBeforeSave ==
  /\ UnloadInterrupts
  /\ \A c \in CyclesInFlight : cycles[c].pc = "load"

\* C21 (amended): a cycle interrupted by a failed load, by a failed save or
\* by the unload of its page before it has issued its save leaves the
\* persisted set as it was and leaves no write of its own behind: the
\* failing step and the unload change nothing in the store, a cycle has no
\* write in the store's queue unless it awaits its save, and after an
\* unload before the save the queue holds the writes of earlier page views
\* only.
C21_InterruptedBeforeSaveLeavesStore ==
  /\ [][(CycleFails \/ UnloadInterrupts) => store' = store]_vars
  /\ []OneSaveAfterLoad
  /\ [][UnloadBeforeSave
          => SavesIn(queue') = SelectSeq(queue, LAMBDA r : r.op = "set" /\ r.by = -1)]_vars

\* A cycle has failed at its load while the store holds the set an earlier
\* page view saved: the page's listings are parsed and unmarked, and no
\* request is left in the store's queue.
C21_Witness ==
  /\ cycles = <<Ended("threw")>>
  /\ ~store.absent
  /\ store.packageData # << >>
  /\ queue = << >>
  /\ page # << >>
  /\ \A i \in 1..Len(page) :
        /\ elems[page[i]].hasHeading
        /\ elems[page[i]] = Served(elems[page[i]])

\* The controller is Done and a set of snapshots is persisted.
DonePersisted == isInitialized /\ ~store.absent /\ store.packageData # << >>

\* C22: with successful store operations and delivered mutations, a page
\* that holds at least one listing from some point on eventually reaches
\* Done with snapshots persisted, and the guard taken by a trigger that
\* found no listings is released again.
C22_EventuallyDone ==
  /\ (<>[](page # << >>)) => <>DonePersisted
  /\ \A c \in 1..MaxCycles : (FoundNothing(c) ~> ~isInitializing)

\* The classification of listing q when compared with the one previous
\* snapshot p of its base key.
ClassAgainst(p, q) ==
  IF getPackageKeyWithPercentage(p) # getPackageKeyWithPercentage(q)
  THEN "package-offer-changed"
  ELSE IF getFullPackageKey(p) # getFullPackageKey(q)
  THEN "package-price-changed"
  ELSE "unchanged"

\* C23: when the previous set holds several snapshots with one base key,
\* every current listing with that base key is compared with the last of
\* them in stored order, and two current listings with one base key are
\* compared with the same previous snapshot.
C23_LastWriteWins ==
  \A c \in 1..Len(cycles) :
    Classified(c) =>
      LET a == cycles[c] IN
      /\ \A i \in 1..Len(a.results) :
            Matched(a.prevPackages, a.currentPackages[i]) # {} =>
              LET p == Prior(a.prevPackages, a.currentPackages[i]) IN
              /\ a.results[i].class = ClassAgainst(p, a.currentPackages[i])
              /\ a.results[i].class # "unchanged" => a.results[i].oldTotal = PayloadOf(p)
      /\ \A i, j \in 1..Len(a.results) :
            (/\ getBasePackageKey(a.currentPackages[i])
                  = getBasePackageKey(a.currentPackages[j])
             /\ a.results[i].oldTotal.shown
             /\ a.results[j].oldTotal.shown)
            => a.results[i].oldTotal = a.results[j].oldTotal

\* Two current listings with one base key have been compared with a
\* previous set of two different snapshots of that base key, and both show
\* the payload of the second.
C23_Witness ==
  /\ Classified(1)
  /\ Len(cycles[1].prevPackages) = 2
  /\ Len(cycles[1].results) = 2
  /\ Matched(cycles[1].prevPackages, cycles[1].currentPackages[1]) = {1, 2}
  /\ Matched(cycles[1].prevPackages, cycles[1].currentPackages[2]) = {1, 2}
  /\ PayloadOf(cycles[1].prevPackages[1]) # PayloadOf(cycles[1].prevPackages[2])
  /\ cycles[1].currentPackages[1] # cycles[1].currentPackages[2]
  /\ cycles[1].results[1].oldTotal = PayloadOf(cycles[1].prevPackages[2])
  /\ cycles[1].results[2].oldTotal = PayloadOf(cycles[1].prevPackages[2])

\* Activation c of content.js has marked its packages.
Marked_content(c) == c \in 1..Len(cycles) /\ cycles[c].pc = "save"

\* C24: in content.js a current package that has the seller and the card
\* quantities, names and conditions of a stored package and another
\* efficiency text is marked package-offer-changed, not package-new.
C24_OfferChangedMarked_content ==
  \A c \in 1..Len(cycles) :
    Marked_content(c) =>
      LET a == cycles[c] IN
      \A i \in 1..Len(a.results) :
         (/\ Len(a.prevPackages) = 1
          /\ SameOffer(a.prevPackages[1], a.currentPackages[i])
          /\ a.prevPackages[1].efficiency # a.currentPackages[i].efficiency)
         => /\ a.results[i] = "package-offer-changed"
            /\ "package-new" \notin elems[a.packages[i]].classes

\* Listings on the page that carry the class mark.
MarkedOnPage(class) ==
  Cardinality({i \in 1..Len(page) : class \in elems[page[i]].classes})

\* The running counts agree with the marks on the page.
CountsAgree ==
  /\ newCount = MarkedOnPage("package-new")
  /\ offerChangedCount = MarkedOnPage("package-offer-changed")
  /\ priceChangedCount = MarkedOnPage("package-price-changed")

\* A cycle of this page view has completed its save.
CompletedCycle ==
  \E c \in 1..Len(cycles) :
     \/ cycles[c].pc = "done"
     \/ cycles[c].pc = "returned" /\ cycles[c].packages # << >>

\* C25, at completion: when the save of a cycle completes on the page it
\* extracted, the three counts are the numbers of listings marked new,
\* offer-changed and price-changed, and their sum is at most the number of
\* listings the cycle extracted.
C25_CountsAgreeAtCompletion ==
  [][\A c \in 1..MaxCycles :
        (SaveCompletes(c) /\ page = cycles[c].packages)
          => /\ CountsAgree'
             /\ newCount' + offerChangedCount' + priceChangedCount'
                  <= Len(cycles[c].currentPackages)]_vars

\* C25, afterwards: no trigger and no reset action of the page view undoes
\* the agreement while the page keeps its listings.
C25_CountsAgreeAfterwards ==
  [][(CompletedCycle /\ CountsAgree /\ loaded' /\ page' = page) => CountsAgree']_vars

\* C25: after any completed cycle the counts equal the numbers of marked
\* listings, after any sequence of triggers and reset actions within the
\* page view.
C25_CountsMatchMarks == C25_CountsAgreeAtCompletion /\ C25_CountsAgreeAfterwards

PackageFields == {"username", "total", "efficiencyText", "efficiencyPercentage", "cards"}

CardFields == {"name", "condition", "price", "quantity"}

\* A persisted value made of canonical snapshots only.
Canonical(pkgs) ==
  \A i \in 1..Len(pkgs) :
     /\ DOMAIN pkgs[i] = PackageFields
     /\ \A j \in 1..Len(pkgs[i].cards) : DOMAIN pkgs[i].cards[j] = CardFields

\* The snapshots in memory, with their element references.
WithElements(pkgs) ==
  \A i \in 1..Len(pkgs) :
     /\ DOMAIN pkgs[i] = PackageFields \cup {"element"}
     /\ \A j \in 1..Len(pkgs[i].cards) :
           DOMAIN pkgs[i].cards[j] = CardFields \cup {"element"}

\* C26: every value sent to the store or held by it consists of canonical
\* package and card snapshots without element references, and building the
\* persisted copy leaves the current snapshots in memory, element references
\* included, as they were extracted.
C26_OnlyCanonicalPersisted ==
  /\ [](/\ Canonical(store.packageData)
        /\ \A k \in 1..Len(queue) : queue[k].op = "set" => Canonical(queue[k].value))
  /\ [][\A c \in 1..MaxCycles :
          (c \in 1..Len(cycles) /\ cycles[c].pc = "load"
             /\ c \in 1..Len(cycles') /\ cycles'[c].pc = "save")
          => /\ cycles'[c].currentPackages = cycles[c].currentPackages
             /\ WithElements(cycles'[c].currentPackages)
             /\ queue'[Len(queue')].value = packagesToStore(cycles[c].currentPackages)]_vars

\* A cycle awaits its save: the request holds the copy, the activation the
\* snapshots with their element references, the store an earlier set.
C26_Witness ==
  /\ queue # << >>
  /\ Head(queue).op = "set"
  /\ Head(queue).by \in 1..Len(cycles)
  /\ cycles[Head(queue).by].pc = "save"
  /\ Len(Head(queue).value) >= 1
  /\ Len(Head(queue).value[1].cards) >= 1
  /\ cycles[Head(queue).by].currentPackages[1].element = cycles[Head(queue).by].packages[1]
  /\ ~store.absent
  /\ store.packageData # << >>

\* The element is as the site served it: no mark, no marker.
Unannotated(el) == el = Served(el)

\* C27: within a cycle annotation is a separate pass after diffing: while
\* the loop has not yet classified every current listing of the cycle, no
\* listing element of the cycle carries a mark or a previous-value marker.
C27_AnnotationAfterAllClassified ==
  \A c \in 1..Len(cycles) :
    (Looping(c) /\ Len(cycles[c].results) < Len(cycles[c].currentPackages))
      => \A i \in 1..Len(cycles[c].packages) : Unannotated(elems[cycles[c].packages[i]])

\* C28: in every state of a page view of the latest revision each listing
\* element carries at most one of package-new, package-offer-changed and
\* package-price-changed.
C28_AtMostOneMark ==
  \A id \in 1..Len(elems) : Cardinality(ClassMarks(elems[id])) <= 1

====
